---- MODULE Spec2Model ----
(***************************************************************************)
(* A model of the openai-proxy-ha core:                                    *)
(*   - the pipeline Executor (app/services/pipeline/executor.py) with the  *)
(*     Home Assistant adapter it calls (app/integrations/homeassistant.py) *)
(*     and the audit log it appends to;                                    *)
(*   - the realtime streaming session (app/api/routes_v2.py,               *)
(*     realtime_websocket) with the RealtimeVoiceAgent                     *)
(*     (app/agents/realtime_voice_agent.py);                               *)
(*   - the rate limiters of outgoing requests (app/core/rate_limiter.py);  *)
(*   - the pipeline orchestrator (app/services/pipeline/orchestrator.py)   *)
(*     with the dialog history it persists the turns to;                   *)
(*   - the memory of app/services/memory_v2: the recent store on the       *)
(*     dialog history, the vector store, the policy and the manager.       *)
(* Strings are sequences of one-character strings, so that the wildcard    *)
(* matching of service names is computed the way the code computes it.     *)
(***************************************************************************)
EXTENDS Integers, Sequences, FiniteSets, TLC

VARIABLES
    \* ---- configuration (settings) ----
    allowed_services_list,      \* settings.allowed_services_list
    confirmation_services_list, \* settings.confirmation_services_list
    \* ---- one run of Executor.execute ----
    pcExec,        \* position of the run: idle | actions | set_rule | log
    plan,          \* the plan argument of the run in progress
    confirmed,     \* the confirmed argument
    dry_run,       \* the dry_run argument
    idx,           \* index of the next action of the for loop
    exec_result,   \* the ExecutionResult the action loop fills
    result,        \* the result dict of the run
    ret,           \* what the last finished run returned
    runs,          \* number of runs started so far
    finished,      \* number of runs that have returned
    \* ---- the world the executor acts on ----
    call_service_calls, \* invocations of ha_client.call_service
    ha_posts,           \* POST requests that reached the Home Assistant REST API
    action_log,         \* rows of the action_log table, in insertion order
    user_rules,         \* rules saved through memory_service.add_user_rule
    \* ---- one connection to /v1/realtime/ws (realtime_websocket) ----
    wsPc,                \* loop | finally_cancel | finally_disconnect |
                         \* finally_shutdown | closed
    client_open,         \* the client side of the websocket is still there
    session_id,          \* the handler's session_id (<<>> is None)
    user_id,             \* the handler's user_id ("" is None)
    event_listener_task, \* the handler's event_listener_task (0 is None)
    websockets,          \* voice_agent.websockets: session id -> channel
    event_handlers,      \* voice_agent.event_handlers: session id -> queue
    channels,            \* the model channels opened, in order of opening
    queues,              \* the asyncio.Queue objects created, in order
    tasks,               \* the listen_and_forward_events tasks created
    client_out,          \* frames written to the client, in order
    now,                 \* time.time(), in seconds
    user_messages,       \* ws_rate_limiter.user_messages
    msgs,                \* client messages received so far
    events,              \* model events received so far
    ticks,               \* clock steps so far
    pings,               \* keepalive pings sent so far
    \* ---- rate_limiter, the RateLimiterManager of the process ----
    limiters,            \* RateLimiterManager.limiters: name -> RateLimiter
    lim_ret,             \* what the last check_limit returned
    lim_log,             \* the check_limit calls made so far, with results
    \* ---- one call of PipelineOrchestrator.process ----
    pcPipe,              \* idle | analyze | resolve | plan | execute |
                         \* compose | save_user | save_assistant | return
    pipe,                \* the arguments and locals of the call in progress,
                         \* with the runs finished and the rows stored when
                         \* it started
    stages_run,          \* the stages the call has run, in order
    pipe_ret,            \* what the last call returned, or that it raised
    pipe_calls,          \* calls of process started so far
    dialog_history,      \* rows of the dialog_history table, in order
    long_term,           \* entries of the vector store, in order of insertion
    mem_ret,             \* what the last memory call returned
    mem_calls,           \* number of memory calls made
    mem_args,            \* arguments of the last memory call
    recalled,            \* the last call of recall and its result
    policy_in,           \* arguments of the policy call under study
    policy_ret,          \* what the policy call returned
    \* ---- EmbeddingService ----
    emb_client,          \* whether self.client is set
    emb_cache,           \* self.cache: text -> vector
    emb_tasks,           \* the calls of embed made so far, each with its
                         \* position and what it returned
    emb_requests,        \* the texts sent to the embeddings endpoint, in order
    \* ---- search: RecencyPolicy, PreClassifier and the Perplexity clients ----
    search_in,           \* arguments of the policy calls under study
    decision,            \* what enforce_recency returned
    override_ret,        \* what validate_override returned
    classify_ret,        \* what classify returned
    upstream,            \* the requests posted to the search API, in order
    search_cache,        \* EnhancedPerplexityClient.cache
    search_ret,          \* what the last search returned, or that it raised
    plan_ret,            \* what the last _plan_web_search returned
    \* ---- one call of RealtimeVoiceAgent.stream_process ----
    sp_pc,               \* idle | waiting | ended | raised
    sp_queue,            \* the events on the queue of the session
    accumulated_text,    \* the text deltas put together
    accumulated_audio,   \* the audio chunks put together
    sp_out,              \* the responses yielded so far, in order
    sp_model,            \* the response at the model: none | active |
                         \* cancelled | over, and the events it has sent
    sp_cancelled,        \* whether cancel_response was called meanwhile
    \* ---- CommandProcessor.execute_action_plan ----
    cp_call,             \* the calls made so far, the arguments of the last
                         \* one and what it returned
    \* ---- coroutines running at the same time ----
    conc,                \* per run of process: where it stands, the history
                         \* it read, the text of its response
    adds,                \* per caller of ShortTermMemory.add: where its call
                         \* stands, the ids it selected for deletion
    add_calls,           \* the calls of add made so far, the id of the last
                         \* row inserted
    store_ops            \* the appends and cleanups made after remember

execVars == <<allowed_services_list, confirmation_services_list, pcExec, plan,
              confirmed, dry_run, idx, exec_result, result, ret, runs,
              finished,
              call_service_calls, ha_posts, action_log, user_rules>>

sessVars == <<wsPc, client_open, session_id, user_id, event_listener_task,
              websockets, event_handlers, channels, queues, tasks, client_out,
              now, user_messages, msgs, events, ticks, pings>>

limVars == <<limiters, lim_ret, lim_log>>

\* The variables of the components besides the executor and the session.
pipeVars == <<pcPipe, pipe, stages_run, pipe_ret, pipe_calls, dialog_history>>

memVars ==
    <<long_term, mem_ret, mem_calls, mem_args, recalled, policy_in, policy_ret>>

embVars == <<emb_client, emb_cache, emb_tasks, emb_requests>>

\* The variables of the services added to the ones above.
searchVars == <<search_in, decision, override_ret, classify_ret, upstream,
                search_cache, search_ret, plan_ret>>

streamVars == <<sp_pc, sp_queue, accumulated_text, accumulated_audio, sp_out,
                sp_model, sp_cancelled>>

cmdVars == <<cp_call>>

concVars == <<conc, adds, add_calls, store_ops>>

svcVars == <<embVars, searchVars, streamVars, cmdVars, concVars>>

\* The variables of every component but the services.
baseVars == <<execVars, sessVars, limVars, pipeVars, memVars>>

\* What the actions of one service leave alone.
embOthers == <<baseVars, searchVars, streamVars, cmdVars, concVars>>
searchOthers == <<baseVars, embVars, streamVars, cmdVars, concVars>>
streamOthers == <<baseVars, embVars, searchVars, cmdVars, concVars>>
cmdOthers == <<sessVars, limVars, pipeVars, memVars, embVars, searchVars,
               streamVars, concVars>>
concOthers == <<execVars, sessVars, limVars, memVars, embVars, searchVars,
                streamVars, cmdVars>>

libVars == <<limVars, pipeVars, memVars, svcVars>>

vars == <<execVars, sessVars, libVars>>

None == "None"

\* None where a datetime or a number of days is expected
Never == -1

\* Number of Executor.execute runs explored one after another.
MaxRuns == 2

-----------------------------------------------------------------------------
(* Strings and the wildcard match of HomeAssistantClient._is_service_allowed *)

\* "light", "cover", "lock" and one service name, abbreviated to one character.
Light == <<"l">>
Cover == <<"c">>
Lock  == <<"k">>
TurnOn == <<"o">>
Empty == <<>>

\* f"{domain}.{service}"
ServiceCall(domain, service) == domain \o <<".">> \o service

\* pattern.replace(".", r"\.").replace("*", ".*"): a regex as a sequence of
\* tokens, a literal character or "any sequence of characters".
ToRegex(pattern) ==
    [i \in 1..Len(pattern) |->
        IF pattern[i] = "*" THEN [kind |-> "anyseq", ch |-> ""]
                            ELSE [kind |-> "lit", ch |-> pattern[i]]]

RECURSIVE ReMatch(_, _)
\* re.match(f"^{regex}$", s)
ReMatch(regex, s) ==
    IF regex = <<>> THEN s = <<>>
    ELSE IF Head(regex).kind = "anyseq"
         THEN ReMatch(Tail(regex), s) \/ (s # <<>> /\ ReMatch(regex, Tail(s)))
         ELSE s # <<>> /\ Head(s) = Head(regex).ch /\ ReMatch(Tail(regex), Tail(s))

IsServiceAllowed(service, allowed) ==
    \E i \in 1..Len(allowed) : ReMatch(ToRegex(allowed[i]), service)

NeedsConfirmation(service) ==
    IsServiceAllowed(service, confirmation_services_list)

-----------------------------------------------------------------------------
(* Inputs *)

Action(d, s) == [domain |-> d, service |-> s]

LightOn   == Action(Light, TurnOn)
CoverOpen == Action(Cover, TurnOn)
LockOpen  == Action(Lock, TurnOn)
NoDomain  == Action(Empty, TurnOn)

\* The action lists of the plans given to the executor.
ActionLists ==
    { <<>>, <<LightOn>>, <<CoverOpen>>, <<LockOpen>>,
      <<NoDomain, LightOn>>, <<LockOpen, CoverOpen>> }

Plans ==
    [type : {"action_plan"}, actions : ActionLists,
     needs_confirmation : BOOLEAN, rule_text : {""}]
    \cup
    [type : {"set_rule"}, actions : {<<>>},
     needs_confirmation : BOOLEAN, rule_text : {"", "rule"}]
    \cup
    [type : {"text_response"}, actions : {<<>>},
     needs_confirmation : BOOLEAN, rule_text : {""}]

NoPlan == [type |-> None, actions |-> <<>>, needs_confirmation |-> FALSE,
           rule_text |-> ""]

\* ExecutionResult.__init__
NewExecutionResult ==
    [success |-> TRUE, executed_actions |-> <<>>, failed_actions |-> <<>>,
     errors |-> <<>>]

AddSuccess(r, action) ==
    [r EXCEPT !.executed_actions = Append(@, action)]

\* A failure that is recorded and leaves success as it was.
AddFailureKeepsSuccess(r, action, error) ==
    [r EXCEPT !.failed_actions = Append(@, action),
              !.errors = Append(@, error)]

AddFailure(r, action, error) ==
    [r EXCEPT !.failed_actions = Append(@, action),
              !.errors = Append(@, error),
              !.success = FALSE]

\* An error message: its text and the service name formatted into it.
Error(msg, service) == [msg |-> msg, service |-> service]

RECURSIVE JoinErrors(_)
\* "; ".join(errors)
JoinErrors(errors) ==
    IF errors = <<>> THEN <<>>
    ELSE IF Len(errors) = 1 THEN <<errors[1]>>
    ELSE <<errors[1], Error("; ", <<>>)>> \o JoinErrors(Tail(errors))

\* A result dict: success, the counts and lists of _execute_ha_actions, the
\* needs_confirmation key of the confirmation decision, and what the message
\* says (kind).
ResultDict(success, er, needsConf, kind) ==
    [success |-> success,
     executed |-> Len(er.executed_actions),
     failed |-> Len(er.failed_actions),
     results |-> er.executed_actions,
     errors |-> er.errors,
     needs_confirmation |-> needsConf,
     kind |-> kind]

NoResult == ResultDict(FALSE, NewExecutionResult, FALSE, None)

-----------------------------------------------------------------------------
(* Configurations *)

AllowedConfigs == { << <<"l", ".", "*">>, <<"c", ".", "o">> >> }

ConfirmationConfigs == { << <<"k", ".", "*">>, <<"c", ".", "*">> >> }

InitExec ==
    /\ allowed_services_list \in AllowedConfigs
    /\ confirmation_services_list \in ConfirmationConfigs
    /\ pcExec = "idle"
    /\ plan = NoPlan
    /\ confirmed = FALSE
    /\ dry_run = FALSE
    /\ idx = 0
    /\ exec_result = NewExecutionResult
    /\ result = NoResult
    /\ ret = NoResult
    /\ runs = 0
    /\ finished = 0
    /\ call_service_calls = <<>>
    /\ ha_posts = <<>>
    /\ action_log = <<>>
    /\ user_rules = <<>>

-----------------------------------------------------------------------------
(* HomeAssistantClient.call_service: the allow-list check, then the POST.   *)
(* httpOk is whether the REST request succeeds (aiohttp raises otherwise).  *)

NotAllowedError(service) == Error("Service is not allowed", service)
ClientError == Error("ClientError", <<>>)
MissingError == Error("Missing domain or service", <<>>)

\* The outcome of one call: whether a POST was issued, whether the call
\* returned (ok) and the exception raised otherwise.
CallService(domain, service, httpOk) ==
    LET service_call == ServiceCall(domain, service) IN
    IF ~IsServiceAllowed(service_call, allowed_services_list)
    THEN [posted |-> FALSE, ok |-> FALSE,
          raised |-> NotAllowedError(service_call)]
    ELSE [posted |-> TRUE, ok |-> httpOk, raised |-> ClientError]

-----------------------------------------------------------------------------
(* Executor.execute *)

\* A gate that never asks: the run goes on to the adapter unconfirmed.
ConfirmationNeverRequired(p, c) == FALSE

\* "if needs_confirmation and not confirmed"
ConfirmationRequired(p, c) == p.needs_confirmation /\ ~c

\* The locals of a run, gone when execute returns.
ResetLocals ==
    /\ plan' = NoPlan
    /\ confirmed' = FALSE
    /\ dry_run' = FALSE
    /\ idx' = 0
    /\ exec_result' = NewExecutionResult
    /\ result' = NoResult
    /\ pcExec' = "idle"

\* The entry of execute up to its first await: the confirmation decision
\* returns at once, without an audit record; otherwise the run is routed by
\* plan type.
Execute(p, c, d) ==
    /\ UNCHANGED <<sessVars, libVars>>
    /\ pcExec = "idle"
    /\ runs < MaxRuns
    /\ runs' = runs + 1
    /\ UNCHANGED <<allowed_services_list, confirmation_services_list,
                   call_service_calls, ha_posts, action_log, user_rules>>
    /\ IF ConfirmationRequired(p, c)
       THEN /\ ret' = ResultDict(FALSE, NewExecutionResult, TRUE, "confirm")
            /\ finished' = finished + 1
            /\ ResetLocals
       ELSE /\ UNCHANGED <<ret, finished>>
            /\ plan' = p
            /\ confirmed' = c
            /\ dry_run' = d
            /\ exec_result' = NewExecutionResult
            /\ IF p.type = "action_plan"
               THEN IF p.actions = <<>>
                    THEN /\ result' = ResultDict(TRUE, NewExecutionResult,
                                                 FALSE, "no_actions")
                         /\ pcExec' = "log"
                         /\ idx' = 0
                    ELSE /\ result' = NoResult
                         /\ pcExec' = "actions"
                         /\ idx' = 1
               ELSE IF p.type = "set_rule"
               THEN /\ result' = NoResult
                    /\ pcExec' = "set_rule"
                    /\ idx' = 0
               ELSE /\ result' = ResultDict(TRUE, NewExecutionResult,
                                            FALSE, "no_execution")
                    /\ pcExec' = "log"
                    /\ idx' = 0

\* One iteration of the for loop of _execute_ha_actions; the last one builds
\* the result dict.
ExecuteHaAction(httpOk) ==
    /\ UNCHANGED <<sessVars, libVars>>
    /\ pcExec = "actions"
    /\ LET action == plan.actions[idx]
           missing == action.domain = <<>> \/ action.service = <<>>
           called == ~missing /\ ~dry_run
           out == CallService(action.domain, action.service, httpOk)
           service_call == ServiceCall(action.domain, action.service)
           er == IF missing THEN AddFailure(exec_result, action, MissingError)
                 ELSE IF dry_run THEN AddSuccess(exec_result, action)
                 ELSE IF out.ok THEN AddSuccess(exec_result, action)
                 ELSE AddFailure(exec_result, action, out.raised)
       IN /\ call_service_calls' =
                IF called THEN Append(call_service_calls, service_call)
                          ELSE call_service_calls
          /\ ha_posts' = IF called /\ out.posted
                         THEN Append(ha_posts, service_call)
                         ELSE ha_posts
          /\ exec_result' = er
          /\ IF idx = Len(plan.actions)
             THEN /\ result' = ResultDict(er.success, er, FALSE, "executed")
                  /\ pcExec' = "log"
                  /\ idx' = 0
             ELSE /\ idx' = idx + 1
                  /\ UNCHANGED <<result, pcExec>>
    /\ UNCHANGED <<allowed_services_list, confirmation_services_list, plan,
                   confirmed, dry_run, ret, runs, finished, action_log,
                   user_rules>>

\* _execute_set_rule; memOk is whether memory_service.add_user_rule succeeds.
ExecuteSetRule(memOk) ==
    /\ UNCHANGED <<sessVars, libVars>>
    /\ pcExec = "set_rule"
    /\ IF plan.rule_text = ""
       THEN /\ result' = ResultDict(FALSE, NewExecutionResult, FALSE,
                                    "rule_empty")
            /\ UNCHANGED user_rules
       ELSE IF memOk
       THEN /\ user_rules' = Append(user_rules, plan.rule_text)
            /\ result' = ResultDict(TRUE, NewExecutionResult, FALSE,
                                    "rule_saved")
       ELSE /\ result' = ResultDict(FALSE, NewExecutionResult, FALSE,
                                    "rule_failed")
            /\ UNCHANGED user_rules
    /\ pcExec' = "log"
    /\ UNCHANGED <<allowed_services_list, confirmation_services_list, plan,
                   confirmed, dry_run, idx, exec_result, ret, runs, finished,
                   call_service_calls, ha_posts, action_log>>

\* The row _log_action builds.
LogEntry(p, r, c) ==
    [actions |-> p.actions,
     confirmed |-> c,
     executed |-> TRUE,
     success |-> r.success,
     error |-> IF r.errors # <<>>
               THEN [null |-> FALSE, text |-> JoinErrors(r.errors)]
               ELSE [null |-> TRUE, text |-> <<>>]]

\* _log_action and the return of execute; dbOk is whether the insert and
\* commit succeed (a failure is logged and swallowed).
LogAction(dbOk) ==
    /\ UNCHANGED <<sessVars, libVars>>
    /\ pcExec = "log"
    /\ action_log' = IF dbOk
                     THEN Append(action_log, LogEntry(plan, result, confirmed))
                     ELSE action_log
    /\ ret' = result
    /\ finished' = finished + 1
    /\ ResetLocals
    /\ UNCHANGED <<allowed_services_list, confirmation_services_list, runs,
                   call_service_calls, ha_posts, user_rules>>

NextExec ==
    \/ \E p \in Plans, c \in BOOLEAN, d \in BOOLEAN : Execute(p, c, d)
    \/ \E httpOk \in BOOLEAN : ExecuteHaAction(httpOk)
    \/ \E memOk \in BOOLEAN : ExecuteSetRule(memOk)
    \/ \E dbOk \in BOOLEAN : LogAction(dbOk)

-----------------------------------------------------------------------------
(* The realtime session: data *)

\* Bounds of the session model: client messages received (in the model of
\* the message loop alone, and with the other tasks at work), model events
\* received, clock steps and keepalive pings.
MaxMsgs == 4
MaxSessionMsgs == 2
MaxEvents == 2
MaxTicks == 2
MaxPings == 1

\* ws_rate_limiter = WebSocketRateLimiter(max_messages_per_minute=120)
MaxMessagesPerMinute == 120
\* "if current_time - t < 60"
WindowSeconds == 60

NoSession == <<>>
NoUser == ""
NoTask == 0

\* data.get("user_id", "anonymous")
Users == {"u1", "anonymous"}

\* f"{user_id}_{int(time.time())}"
SessionId(u, t) == <<u, "_", t>>

\* dict operations
DictSet(dict, k, v) ==
    [x \in DOMAIN dict \cup {k} |-> IF x = k THEN v ELSE dict[x]]
DictDel(dict, k) == [x \in DOMAIN dict \ {k} |-> dict[x]]
EmptyDict == <<>>

\* A frame written to the client or an event of the model channel. src tells
\* the frames the proxy makes from the model events it forwards; n numbers
\* the events of one model channel.
Frame(type, arg) == [type |-> type, arg |-> arg, src |-> "proxy", n |-> 0]
ModelEvent(type, call_id, n) ==
    [type |-> type, arg |-> <<call_id>>, src |-> "model", n |-> n]
UpEvent(type, arg) == [type |-> type, arg |-> arg]

\* The events of a response as the model sends them: an audio delta or the
\* arguments of a function call, then response.done.
ResponseStarts ==
    {"response.audio.delta", "response.function_call_arguments.done"}

\* The types the next event of a channel can have, after those received.
NextTypes(received) ==
    IF received = <<>> \/ received[Len(received)].type = "response.done"
    THEN ResponseStarts
    ELSE {"response.done"}

CallIdOf(type) ==
    IF type = "response.function_call_arguments.done" THEN "c1" ELSE ""

\* base64: the audio strings a client sends and the bytes they stand for.
AudioInputs == {"", "QUJD", "QUJ"}
B64Decode(a) == IF a = "QUJD" THEN [ok |-> TRUE, bytes |-> "ABC"]
                ELSE [ok |-> FALSE, bytes |-> ""]
B64Encode(b) == IF b = "ABC" THEN "QUJD" ELSE ""

TextInputs == {"", "hi"}

\* The call_id and output values of function_result messages; "" and
\* "absent" stand for an empty and a missing field.
CallIds == {"", "c1"}
Outputs == {"absent", "zero", "false", "ok"}
\* Python truthiness of the value
Truthy(v) == v \notin {"", "absent", "zero", "false", "empty"}
\* json.dumps(output)
JsonDumps(v) ==
    CASE v = "absent" -> <<"null">>
      [] v = "zero" -> <<"0">>
      [] v = "false" -> <<"false">>
      [] v = "empty" -> <<"\"", "\"">>
      [] OTHER -> <<"\"", v, "\"">>

-----------------------------------------------------------------------------
(* WebSocketRateLimiter.check_limit *)

Purge(list, t) == SelectSeq(list, LAMBDA x : t - x < WindowSeconds)

CheckLimit(um, u, t) ==
    LET list == IF u \in DOMAIN um THEN Purge(um[u], t) ELSE <<>> IN
    IF Len(list) >= MaxMessagesPerMinute
    THEN [allowed |-> FALSE,
          wait_time |-> WindowSeconds - (t - list[1]),
          user_messages |-> DictSet(um, u, list)]
    ELSE [allowed |-> TRUE,
          wait_time |-> 0,
          user_messages |-> DictSet(um, u, Append(list, t))]

\* A limiter with no exempt message type.
LimitedEveryType(type) == user_id # NoUser

\* "if message_type not in ['ping', 'audio_input'] and user_id"
Limited(type) == type \notin {"ping", "audio_input"} /\ user_id # NoUser

Denied(type) ==
    Limited(type) /\ ~CheckLimit(user_messages, user_id, now).allowed

-----------------------------------------------------------------------------
(* RealtimeVoiceAgent: the model channels *)

NewChannel(sid, sent, listener) ==
    [sid |-> sid, open |-> TRUE, sent |-> sent, received |-> <<>>,
     listener |-> listener]

\* self.websockets.get(session_id), 0 when there is none
WsOf(sid) == IF sid \in DOMAIN websockets THEN websockets[sid] ELSE 0

\* "ws = self.websockets.get(session_id); if not ws: raise", then ws.send,
\* which raises on a closed channel.
CanSend == WsOf(session_id) # 0 /\ channels[WsOf(session_id)].open

SendUp(evts) ==
    [channels EXCEPT ![WsOf(session_id)].sent = @ \o evts]

ResponseCreate == UpEvent("response.create", <<>>)

\* send_audio
SendAudio(audio_data) ==
    <<UpEvent("input_audio_buffer.append", <<B64Encode(audio_data)>>)>>
\* commit_audio
CommitAudio == <<UpEvent("input_audio_buffer.commit", <<>>)>>
\* send_text with trigger_response
SendText(text) ==
    <<UpEvent("conversation.item.create", <<"message", text>>),
      ResponseCreate>>
\* cancel_response
CancelResponse == <<UpEvent("response.cancel", <<>>)>>

\* send_function_result
SendFunctionResult(call_id, output) ==
    <<UpEvent("conversation.item.create",
              <<"function_call_output", call_id, JsonDumps(output)>>),
      ResponseCreate>>

\* A put at the head of the queue: last in, first out.
QueuePutFront(q, e) == <<e>> \o q

\* asyncio.Queue.put
QueuePut(q, e) == Append(q, e)

-----------------------------------------------------------------------------
(* realtime_websocket: the client message loop *)

\* What every message does first: it is counted and rate-limited.
Receive(type) ==
    /\ wsPc = "loop"
    /\ msgs' = msgs + 1
    /\ user_messages' =
          IF Limited(type)
          THEN CheckLimit(user_messages, user_id, now).user_messages
          ELSE user_messages
    /\ UNCHANGED <<execVars, libVars, now, events, ticks, pings, client_open>>

Reply(frame) == client_out' = Append(client_out, frame)

RateLimitFrame ==
    Frame("error", <<"Rate limit exceeded",
                     CheckLimit(user_messages, user_id, now).wait_time>>)

\* The "continue" after a denied message.
DeniedReply ==
    /\ Reply(RateLimitFrame)
    /\ UNCHANGED <<wsPc, session_id, user_id, event_listener_task, websockets,
                   event_handlers, channels, queues, tasks>>

\* "except Exception as e": the error frame, then the finally block.
Raise(message) ==
    /\ Reply(Frame("error", <<message>>))
    /\ wsPc' = "finally_cancel"

\* An agent call that sends evts upstream, or raises.
Upstream(evts) ==
    IF CanSend
    THEN /\ channels' = SendUp(evts)
         /\ UNCHANGED <<wsPc, client_out>>
    ELSE /\ Raise("send failed")
         /\ UNCHANGED channels

\* message_type == "configure". outcome is what the model side does:
\* the channel opens and takes the session.update ("ok"), websockets.connect
\* fails ("connect_fail"), or the session.update cannot be sent
\* ("configure_fail").
Configure(u, outcome) ==
    /\ Receive("configure")
    /\ IF Denied("configure") THEN DeniedReply
       ELSE LET sid == SessionId(u, now)
                connected == sid \in DOMAIN websockets
                ch == Len(channels) + 1
                ok == connected \/ outcome = "ok"
                registered == ~connected /\ outcome # "connect_fail"
            IN /\ user_id' = u
               /\ session_id' = sid
               /\ channels' =
                     IF registered
                     THEN Append(channels,
                            IF outcome = "ok"
                            THEN NewChannel(sid,
                                   <<UpEvent("session.update", <<>>)>>,
                                   "running")
                            ELSE NewChannel(sid, <<>>, "none"))
                     ELSE channels
               /\ queues' = IF registered THEN Append(queues, <<>>)
                                          ELSE queues
               /\ websockets' = IF registered THEN DictSet(websockets, sid, ch)
                                              ELSE websockets
               /\ event_handlers' =
                     IF registered THEN DictSet(event_handlers, sid, ch)
                                   ELSE event_handlers
               /\ IF ok
                  THEN /\ tasks' = Append(tasks,
                              [queue |-> event_handlers'[sid],
                               state |-> "waiting",
                               item |-> Frame("none", <<>>)])
                       /\ event_listener_task' = Len(tasks) + 1
                       /\ Reply(Frame("configured", sid))
                       /\ UNCHANGED wsPc
                  ELSE /\ Raise(outcome)
                       /\ UNCHANGED <<tasks, event_listener_task>>

\* message_type == "audio_input"
AudioInput(audio) ==
    /\ Receive("audio_input")
    /\ UNCHANGED <<session_id, user_id, event_listener_task, websockets,
                   event_handlers, queues, tasks>>
    /\ IF session_id = NoSession
       THEN Reply(Frame("error", <<"Not configured">>)) /\ UNCHANGED <<wsPc, channels>>
       ELSE IF audio = "" THEN UNCHANGED <<wsPc, channels, client_out>>
       ELSE IF ~B64Decode(audio).ok
       THEN Raise("Incorrect padding") /\ UNCHANGED channels
       ELSE Upstream(SendAudio(B64Decode(audio).bytes))

\* message_type == "audio_commit"
AudioCommit ==
    /\ Receive("audio_commit")
    /\ UNCHANGED <<session_id, user_id, event_listener_task, websockets,
                   event_handlers, queues, tasks>>
    /\ IF Denied("audio_commit")
       THEN Reply(RateLimitFrame) /\ UNCHANGED <<wsPc, channels>>
       ELSE IF session_id = NoSession
       THEN Reply(Frame("error", <<"Not configured">>)) /\ UNCHANGED <<wsPc, channels>>
       ELSE Upstream(CommitAudio)

\* message_type == "text_input"
TextInput(text) ==
    /\ Receive("text_input")
    /\ UNCHANGED <<session_id, user_id, event_listener_task, websockets,
                   event_handlers, queues, tasks>>
    /\ IF Denied("text_input")
       THEN Reply(RateLimitFrame) /\ UNCHANGED <<wsPc, channels>>
       ELSE IF session_id = NoSession
       THEN Reply(Frame("error", <<"Not configured">>)) /\ UNCHANGED <<wsPc, channels>>
       ELSE IF text = "" THEN UNCHANGED <<wsPc, channels, client_out>>
       ELSE Upstream(SendText(text))

\* message_type == "cancel"
Cancel ==
    /\ Receive("cancel")
    /\ UNCHANGED <<session_id, user_id, event_listener_task, websockets,
                   event_handlers, queues, tasks>>
    /\ IF Denied("cancel")
       THEN Reply(RateLimitFrame) /\ UNCHANGED <<wsPc, channels>>
       ELSE IF session_id = NoSession
       THEN UNCHANGED <<wsPc, channels, client_out>>
       ELSE Upstream(CancelResponse)

\* message_type == "function_result"
FunctionResult(call_id, output) ==
    /\ Receive("function_result")
    /\ UNCHANGED <<session_id, user_id, event_listener_task, websockets,
                   event_handlers, queues, tasks>>
    /\ IF Denied("function_result")
       THEN Reply(RateLimitFrame) /\ UNCHANGED <<wsPc, channels>>
       ELSE IF session_id = NoSession
       THEN Reply(Frame("error", <<"Not configured">>)) /\ UNCHANGED <<wsPc, channels>>
       ELSE IF ~(Truthy(call_id) /\ Truthy(output))
       THEN UNCHANGED <<wsPc, channels, client_out>>
       ELSE Upstream(SendFunctionResult(call_id, output))

\* message_type == "ping"
Ping ==
    /\ Receive("ping")
    /\ UNCHANGED <<session_id, user_id, event_listener_task, websockets,
                   event_handlers, queues, tasks, wsPc, channels>>
    /\ Reply(Frame("pong", <<>>))

\* any other message_type
UnknownMessage ==
    /\ Receive("other")
    /\ UNCHANGED <<session_id, user_id, event_listener_task, websockets,
                   event_handlers, queues, tasks, wsPc, channels>>
    /\ IF Denied("other") THEN Reply(RateLimitFrame)
       ELSE Reply(Frame("error", <<"Unknown message type">>))

\* receive_json raises WebSocketDisconnect: the client has gone.
Disconnect ==
    /\ wsPc = "loop"
    /\ wsPc' = "finally_cancel"
    /\ client_open' = FALSE
    /\ UNCHANGED <<execVars, libVars, session_id, user_id, event_listener_task,
                   websockets, event_handlers, channels, queues, tasks,
                   client_out, now, user_messages, msgs, events, ticks, pings>>

-----------------------------------------------------------------------------
(* realtime_websocket: the finally block *)

\* "if event_listener_task and not event_listener_task.done(): cancel, await"
FinallyCancel ==
    /\ wsPc = "finally_cancel"
    /\ wsPc' = "finally_disconnect"
    /\ tasks' =
          IF event_listener_task # NoTask
             /\ tasks[event_listener_task].state \in {"waiting", "sending"}
          THEN [tasks EXCEPT ![event_listener_task].state = "cancelled"]
          ELSE tasks
    /\ UNCHANGED <<execVars, libVars, client_open, session_id, user_id,
                   event_listener_task, websockets, event_handlers, channels,
                   queues, client_out, now, user_messages, msgs, events,
                   ticks, pings>>

\* RealtimeVoiceAgent.disconnect_session(sid), as the maps it leaves
DisconnectSession(sid) ==
    IF WsOf(sid) # 0
    THEN [channels |-> [channels EXCEPT ![WsOf(sid)].open = FALSE],
          websockets |-> DictDel(websockets, sid),
          event_handlers |-> DictDel(event_handlers, sid)]
    ELSE [channels |-> channels, websockets |-> websockets,
          event_handlers |-> event_handlers]

\* "if session_id: await voice_agent.disconnect_session(session_id)"
FinallyDisconnect ==
    /\ wsPc = "finally_disconnect"
    /\ wsPc' = "finally_shutdown"
    /\ LET after == IF session_id # NoSession
                    THEN DisconnectSession(session_id)
                    ELSE [channels |-> channels, websockets |-> websockets,
                          event_handlers |-> event_handlers]
       IN /\ channels' = after.channels
          /\ websockets' = after.websockets
          /\ event_handlers' = after.event_handlers
    /\ UNCHANGED <<execVars, libVars, client_open, session_id, user_id,
                   event_listener_task, queues, tasks, client_out, now,
                   user_messages, msgs, events, ticks, pings>>

\* RealtimeVoiceAgent.shutdown: close every registered channel, clear both
\* maps; then the handler returns and the client socket is closed.
FinallyShutdown ==
    /\ wsPc = "finally_shutdown"
    /\ wsPc' = "closed"
    /\ client_open' = FALSE
    /\ channels' =
          [c \in DOMAIN channels |->
              IF \E sid \in DOMAIN websockets : websockets[sid] = c
              THEN [channels[c] EXCEPT !.open = FALSE]
              ELSE channels[c]]
    /\ websockets' = EmptyDict
    /\ event_handlers' = EmptyDict
    /\ UNCHANGED <<execVars, libVars, session_id, user_id, event_listener_task, queues,
                   tasks, client_out, now, user_messages, msgs, events, ticks,
                   pings>>

-----------------------------------------------------------------------------
(* RealtimeVoiceAgent._listen_events and the model side of a channel *)

\* One round of "async for message in ws": an event of the given type
\* arrives and is put on the session's queue, if it still has one.
ListenEvent(c, type) ==
    /\ c \in DOMAIN channels
    /\ channels[c].open
    /\ channels[c].listener = "running"
    /\ events < MaxEvents
    /\ events' = events + 1
    /\ type \in NextTypes(channels[c].received)
    /\ LET event == ModelEvent(type, CallIdOf(type),
                               Len(channels[c].received) + 1)
           sid == channels[c].sid
       IN /\ channels' = [channels EXCEPT ![c].received = Append(@, event)]
          /\ queues' =
                IF sid \in DOMAIN event_handlers
                THEN [queues EXCEPT ![event_handlers[sid]] = QueuePut(@, event)]
                ELSE queues
    /\ UNCHANGED <<execVars, libVars, wsPc, client_open, session_id, user_id,
                   event_listener_task, websockets, event_handlers, tasks,
                   client_out, now, user_messages, msgs, ticks, pings>>

\* The channel is closed: the loop of _listen_events ends.
ListenerEnd(c) ==
    /\ c \in DOMAIN channels
    /\ ~channels[c].open
    /\ channels[c].listener = "running"
    /\ channels' = [channels EXCEPT ![c].listener = "done"]
    /\ UNCHANGED <<execVars, libVars, wsPc, client_open, session_id, user_id,
                   event_listener_task, websockets, event_handlers, queues,
                   tasks, client_out, now, user_messages, msgs, events, ticks,
                   pings>>

\* The model side closes the channel, or the connection to it breaks.
ModelClose(c) ==
    /\ c \in DOMAIN channels
    /\ channels[c].open
    /\ wsPc = "loop"
    /\ channels' = [channels EXCEPT ![c].open = FALSE]
    /\ UNCHANGED <<execVars, libVars, wsPc, client_open, session_id, user_id,
                   event_listener_task, websockets, event_handlers, queues,
                   tasks, client_out, now, user_messages, msgs, events, ticks,
                   pings>>

-----------------------------------------------------------------------------
(* listen_and_forward_events: the forwarder task *)

\* "event = await asyncio.wait_for(queue.get(), timeout=30.0)"
ForwarderGet(t) ==
    /\ t \in DOMAIN tasks
    /\ tasks[t].state = "waiting"
    /\ queues[tasks[t].queue] # <<>>
    /\ tasks' = [tasks EXCEPT ![t].state = "sending",
                              ![t].item = Head(queues[tasks[t].queue])]
    /\ queues' = [queues EXCEPT ![tasks[t].queue] = Tail(@)]
    /\ UNCHANGED <<execVars, libVars, wsPc, client_open, session_id, user_id,
                   event_listener_task, websockets, event_handlers, channels,
                   client_out, now, user_messages, msgs, events, ticks, pings>>

\* "await websocket.send_json(event)"; a failed send ends the task.
ForwarderSend(t) ==
    /\ t \in DOMAIN tasks
    /\ tasks[t].state = "sending"
    /\ IF client_open
       THEN /\ client_out' = Append(client_out, tasks[t].item)
            /\ tasks' = [tasks EXCEPT ![t].state = "waiting",
                                      ![t].item = Frame("none", <<>>)]
       ELSE /\ tasks' = [tasks EXCEPT ![t].state = "done",
                                      ![t].item = Frame("none", <<>>)]
            /\ UNCHANGED client_out
    /\ UNCHANGED <<execVars, libVars, wsPc, client_open, session_id, user_id,
                   event_listener_task, websockets, event_handlers, channels,
                   queues, now, user_messages, msgs, events, ticks, pings>>

\* A dequeue timeout that ends the task: an abort, no keepalive.
ForwarderTimeoutEnds(t) ==
    /\ t \in DOMAIN tasks
    /\ tasks[t].state = "waiting"
    /\ queues[tasks[t].queue] = <<>>
    /\ pings < MaxPings
    /\ pings' = pings + 1
    /\ tasks' = [tasks EXCEPT ![t].state = "done"]
    /\ UNCHANGED <<execVars, libVars, wsPc, client_open, session_id, user_id,
                   event_listener_task, websockets, event_handlers, channels,
                   queues, client_out, now, user_messages, msgs, events,
                   ticks>>

\* The 30 s dequeue timeout: a keepalive ping, and the loop goes on; with
\* the client gone the send raises and the task ends.
ForwarderTimeout(t) ==
    /\ t \in DOMAIN tasks
    /\ tasks[t].state = "waiting"
    /\ queues[tasks[t].queue] = <<>>
    /\ IF client_open
       THEN /\ pings < MaxPings
            /\ pings' = pings + 1
            /\ client_out' = Append(client_out, Frame("ping", <<>>))
            /\ UNCHANGED tasks
       ELSE /\ tasks' = [tasks EXCEPT ![t].state = "done"]
            /\ UNCHANGED <<client_out, pings>>
    /\ UNCHANGED <<execVars, libVars, wsPc, client_open, session_id, user_id,
                   event_listener_task, websockets, event_handlers, channels,
                   queues, now, user_messages, msgs, events, ticks>>

\* Time passes: d seconds of the clock that time.time() reads.
Tick(d) ==
    /\ ticks < MaxTicks
    /\ ticks' = ticks + 1
    /\ now' = now + d
    /\ UNCHANGED <<execVars, libVars, wsPc, client_open, session_id, user_id,
                   event_listener_task, websockets, event_handlers, channels,
                   queues, tasks, client_out, user_messages, msgs, events,
                   pings>>

\* The client message loop alone, with every kind of message, all within one
\* second of the clock: no model event arrives.
NextProtocol ==
    \/ \E u \in Users, outcome \in {"ok", "connect_fail", "configure_fail"} :
          msgs < MaxMsgs /\ Configure(u, outcome)
    \/ \E call_id \in CallIds, output \in Outputs :
          msgs < MaxMsgs /\ FunctionResult(call_id, output)
    \/ \E audio \in AudioInputs : msgs < MaxMsgs /\ AudioInput(audio)
    \/ msgs < MaxMsgs /\ AudioCommit
    \/ \E text \in TextInputs : msgs < MaxMsgs /\ TextInput(text)
    \/ msgs < MaxMsgs /\ Cancel
    \/ msgs < MaxMsgs /\ Ping
    \/ msgs < MaxMsgs /\ UnknownMessage
    \/ Disconnect
    \/ FinallyCancel
    \/ FinallyDisconnect
    \/ FinallyShutdown
    \/ \E c \in DOMAIN channels : ModelClose(c)

\* The three tasks of a session side by side: the client loop with the
\* messages that start, feed and end a session, the listener and the
\* forwarder, all within one second of the clock.
NextSession ==
    \/ \E outcome \in {"ok", "connect_fail", "configure_fail"} :
          msgs < MaxSessionMsgs /\ Configure("u1", outcome)
    \/ msgs < MaxSessionMsgs /\ TextInput("hi")
    \/ msgs < MaxSessionMsgs /\ FunctionResult("c1", "ok")
    \/ Disconnect
    \/ FinallyCancel
    \/ FinallyDisconnect
    \/ FinallyShutdown
    \/ \E c \in DOMAIN channels, type \in ResponseStarts \cup {"response.done"} :
          ListenEvent(c, type)
    \/ \E c \in DOMAIN channels : ListenerEnd(c)
    \/ \E c \in DOMAIN channels : ModelClose(c)
    \/ \E t \in DOMAIN tasks : ForwarderGet(t)
    \/ \E t \in DOMAIN tasks : ForwarderSend(t)
    \/ \E t \in DOMAIN tasks : ForwarderTimeout(t)

\* The limiter is shared by all connections of the process: the connection
\* modelled starts with the budget of u1 untouched, or all but spent by
\* messages of the same second.
InitialBudgets ==
    { EmptyDict,
      [u \in {"u1"} |-> [i \in 1..(MaxMessagesPerMinute - 1) |-> 0]] }

\* A connection just accepted: "session_id = None, user_id = None,
\* event_listener_task = None", a fresh RealtimeVoiceAgent.
SessionStart ==
    /\ wsPc = "loop"
    /\ client_open = TRUE
    /\ session_id = NoSession
    /\ user_id = NoUser
    /\ event_listener_task = NoTask
    /\ websockets = EmptyDict
    /\ event_handlers = EmptyDict
    /\ channels = <<>>
    /\ queues = <<>>
    /\ tasks = <<>>
    /\ client_out = <<>>
    /\ now = 0
    /\ msgs = 0
    /\ events = 0
    /\ ticks = 0
    /\ pings = 0

InitSession ==
    /\ SessionStart
    /\ user_messages \in InitialBudgets

\* rate_limiter = RateLimiterManager(): no limiter yet.
LimiterStart ==
    /\ limiters = EmptyDict
    /\ lim_ret = [allowed |-> TRUE, wait_time |-> 0]
    /\ lim_log = <<>>

\* No call of process yet, an empty dialog history.
PipelineStart ==
    /\ pcPipe = "idle"
    /\ pipe = [confirmed |-> FALSE, dry_run |-> FALSE, start_time |-> 0,
               finished0 |-> 0, history0 |-> 0, plan |-> NoPlan,
               response_text |-> "", execution_result |-> NoResult,
               text |-> ""]
    /\ stages_run = <<>>
    /\ pipe_ret = [raised |-> FALSE, type |-> None, text |-> "",
                   duration_ms |-> 0, steps_completed |-> 0]
    /\ pipe_calls = 0
    /\ dialog_history = <<>>

\* Both stores empty, no memory call made yet.
MemoryStart ==
    /\ long_term = <<>>
    /\ mem_ret = [saved |-> FALSE, raised |-> FALSE, memory_type |-> None,
                  importance |-> None, saved_to |-> <<>>,
                  expires_at |-> Never]
    /\ mem_calls = 0
    /\ recalled = [called |-> FALSE, user_id |-> None, limit |-> 0,
                   memory_type |-> None, search_strategy |-> None,
                   result |-> <<>>]
    /\ mem_args = [user_id |-> None, content |-> <<>>, role |-> None,
                   metadata |-> [role |-> None, intent |-> None,
                                 importance |-> None, expires_at |-> <<>>],
                   memory_type |-> None]

\* No policy call under study.
PolicyStart ==
    /\ policy_in = [memory |-> [importance |-> None,
                                expires_at |-> [kind |-> "none", at |-> Never,
                                                iso |-> <<>>]],
                    current_time |-> Never]
    /\ policy_ret = [called |-> FALSE, value |-> FALSE]

\* The embedding service as constructed: no client, nothing cached.
EmbeddingStart ==
    /\ emb_client = FALSE
    /\ emb_cache = EmptyDict
    /\ emb_tasks = <<>>
    /\ emb_requests = <<>>

\* No days given: the None of an Optional[int]; n days are <<n>>.
NoDays == <<>>

\* No policy call under study.
SearchInStart ==
    search_in = [query |-> <<>>, category |-> None, days |-> NoDays,
                 reason |-> <<>>]

\* No policy call made, nothing posted, the cache of the client empty.
SearchOutStart ==
    /\ decision = [called |-> FALSE,
                   value |-> [category |-> None, requirement |-> None,
                              enforced |-> FALSE, recency_days |-> NoDays]]
    /\ override_ret = [called |-> FALSE, value |-> FALSE]
    /\ classify_ret = [called |-> FALSE, value |-> None]
    /\ upstream = <<>>
    /\ search_cache = EmptyDict
    /\ search_ret = [called |-> FALSE]
    /\ plan_ret = [called |-> FALSE]

\* No call of stream_process, no response at the model.
StreamStart ==
    /\ sp_pc = "idle"
    /\ sp_queue = <<>>
    /\ accumulated_text = <<>>
    /\ accumulated_audio = <<>>
    /\ sp_out = <<>>
    /\ sp_model = [state |-> "none", sent |-> 0, response |-> 0]
    /\ sp_cancelled = FALSE

\* No call of execute_action_plan made.
CommandStart ==
    cp_call = [calls |-> 0, plan |-> NoPlan, confirmed |-> FALSE,
               raised |-> FALSE, success |-> FALSE,
               needs_confirmation |-> FALSE]

\* The runs of process that go on at the same time.
ConcRuns == {1, 2}

\* No run of process under way.
ConcStart ==
    /\ conc = [r \in ConcRuns |-> [pc |-> "idle", read |-> <<>>, text |-> ""]]
    /\ adds = [a \in ConcRuns |-> [pc |-> "idle", ids_to_delete |-> {}]]
    /\ add_calls = 0
    /\ store_ops = 0

\* The services besides the embedding service, as constructed.
OtherSvcStart == SearchOutStart /\ StreamStart /\ CommandStart /\ ConcStart

\* The services as constructed.
SvcStart == EmbeddingStart /\ SearchInStart /\ OtherSvcStart

\* The other components as the process starts them.
LibStart ==
    LimiterStart /\ PipelineStart /\ MemoryStart /\ PolicyStart /\ SvcStart

\* The process at start, with no streaming connection at work.
Init ==
    /\ InitExec
    /\ SessionStart
    /\ user_messages = EmptyDict
    /\ LibStart

SpecExec == Init /\ [][NextExec]_vars

\* One streaming connection with the limiter's budget as other connections
\* left it, and the executor at rest.
InitStream ==
    /\ InitExec
    /\ InitSession
    /\ LibStart

SpecSession == Init /\ [][NextSession]_vars

\* The event loop runs every task that is ready: an event the model has sent
\* is read, a queued event is taken and written. Nothing makes the client
\* send a message.
SpecSessionFair ==
    /\ SpecSession
    /\ WF_vars(\E c \in DOMAIN channels,
                  type \in ResponseStarts \cup {"response.done"} :
                    ListenEvent(c, type))
    /\ WF_vars(\E t \in DOMAIN tasks : ForwarderGet(t))
    /\ WF_vars(\E t \in DOMAIN tasks : ForwarderSend(t))

SpecProtocol == InitStream /\ [][NextProtocol]_vars

-----------------------------------------------------------------------------
(* Claims about the executor, checked under SpecExec *)

\* C1: for every plan with needs_confirmation = true, a run of execute with
\* confirmed = false returns at once with success = false and
\* needs_confirmation = true and calls the adapter not once; the adapter is
\* called for such a plan only by a run with confirmed = true.
C1_ConfirmationGate ==
    [][ /\ \A p \in Plans, d \in BOOLEAN :
              (p.needs_confirmation /\ Execute(p, FALSE, d)) =>
                  /\ ret'.success = FALSE
                  /\ ret'.needs_confirmation = TRUE
                  /\ finished' = finished + 1
                  /\ pcExec' = "idle"
                  /\ call_service_calls' = call_service_calls
                  /\ ha_posts' = ha_posts
        /\ (call_service_calls' # call_service_calls
              /\ plan.needs_confirmation) => confirmed
      ]_vars

\* A first run returned the confirmation decision and a follow-up run with
\* confirmed = true of a plan that needs confirmation has called the adapter.
C1_Witness ==
    /\ ret.kind = "confirm"
    /\ ret.needs_confirmation
    /\ ~ret.success
    /\ plan.needs_confirmation
    /\ confirmed
    /\ Len(call_service_calls) > 0

\* C2: an action whose domain.service matches require_confirmation_services
\* is never sent to the adapter by a run with confirmed = false, whatever
\* needs_confirmation the plan carries.
C2_CoreChecksNeedsConfirmation ==
    [][ (/\ Len(call_service_calls') = Len(call_service_calls) + 1
         /\ NeedsConfirmation(call_service_calls'[Len(call_service_calls')]))
        => confirmed ]_vars

\* C3: every run of execute appends exactly one audit record, holding the
\* run's confirmed, executed, success and joined errors; nothing else
\* changes the log.
C3_OneAuditRecordPerRun ==
    [][ /\ (finished' = finished + 1) =>
              /\ Len(action_log') = Len(action_log) + 1
              /\ SubSeq(action_log', 1, Len(action_log)) = action_log
              /\ pcExec = "log" =>
                    action_log'[Len(action_log')] =
                        LogEntry(plan, result, confirmed)
        /\ (finished' = finished) => action_log' = action_log
      ]_vars

\* C4: an action whose domain.service no pattern of allowed_ha_services
\* matches is rejected: the loop reports it as a failed action and no POST
\* for it is issued, in normal and in dry_run runs alike.
C4_DisallowedActionRejected ==
    [][ (pcExec = "actions") =>
          LET action == plan.actions[idx]
              service_call == ServiceCall(action.domain, action.service)
          IN (/\ action.domain # <<>>
              /\ action.service # <<>>
              /\ ~IsServiceAllowed(service_call, allowed_services_list))
             => /\ exec_result'.failed_actions =
                       Append(exec_result.failed_actions, action)
                /\ exec_result'.executed_actions =
                       exec_result.executed_actions
                /\ ~exec_result'.success
                /\ ha_posts' = ha_posts
      ]_vars

\* C16: a run of execute with dry_run = true has no side effect beyond the
\* audit record: no step of it calls the adapter, issues a POST or saves a
\* rule, for action plans and set_rule plans alike.
C16_DryRunNoSideEffect ==
    [][ (pcExec # "idle" /\ dry_run) =>
            /\ call_service_calls' = call_service_calls
            /\ ha_posts' = ha_posts
            /\ user_rules' = user_rules
      ]_vars

-----------------------------------------------------------------------------
(* Claims about the client message loop, checked under SpecProtocol *)

RECURSIVE SentTotal(_)
SentTotal(chs) ==
    IF chs = <<>> THEN 0 ELSE Len(Head(chs).sent) + SentTotal(Tail(chs))

-----------------------------------------------------------------------------
(* Claims about the tasks of a session, checked under SpecSession *)

\* The forwarded model events among the frames written to the client.
ModelFrames(out) == SelectSeq(out, LAMBDA f : f.src = "model")

IsPrefix(s, t) == Len(s) <= Len(t) /\ SubSeq(t, 1, Len(s)) = s

\* One configure message has been answered with "configured", no second one.
ConfiguredOnce == Len(tasks) = 1 /\ Len(channels) = 1

HasOutput(sent, c) ==
    \E i \in 1..Len(sent) :
        /\ sent[i].type = "conversation.item.create"
        /\ sent[i].arg[1] = "function_call_output"
        /\ sent[i].arg[2] = c

\* The model has asked for a function call on an open channel of a
\* connection still in its message loop, and no output for it was posted.
FunctionCallPending ==
    /\ wsPc = "loop"
    /\ \E c \in DOMAIN channels :
          /\ channels[c].open
          /\ \E i \in 1..Len(channels[c].received) :
                /\ channels[c].received[i].type =
                      "response.function_call_arguments.done"
                /\ ~HasOutput(channels[c].sent,
                              channels[c].received[i].arg[1])

-----------------------------------------------------------------------------
(* Claims about the message limiter of a connection, under SpecProtocol *)

\* A ping or an audio_input message is handled in this step.
ExemptStep == Ping \/ \E audio \in AudioInputs : AudioInput(audio)

\* The frame that answers a message over the budget.
IsRateLimitFrame(f) == f.type = "error" /\ f.arg[1] = "Rate limit exceeded"

-----------------------------------------------------------------------------
(* app/core/rate_limiter.py: RateLimiter and RateLimiterManager *)

\* Bound of the limiter model: calls of check_limit.
MaxCalls == 3

\* The names, rates and identifiers the callers pass; the integrations pass
\* "perplexity" or "habr" and "default".
LimiterNames == {"perplexity", "habr"}
Rates == {1, 2}
Identifiers == {"default", "u1"}

\* The clock steps of the limiter model: a second, or the whole window.
LimiterTicks == {1, 60}

\* "while self.requests and self.requests[0] < minute_ago: popleft()"
RECURSIVE PopOld(_, _)
PopOld(requests, minute_ago) ==
    IF requests # <<>> /\ Head(requests) < minute_ago
    THEN PopOld(Tail(requests), minute_ago)
    ELSE requests

Max(a, b) == IF a >= b THEN a ELSE b

\* RateLimiter(rate_per_minute)
NewLimiter(rate_per_minute) ==
    [rate_per_minute |-> rate_per_minute, requests |-> <<>>]

\* RateLimiter.is_allowed(identifier) at time t: the answer and the deque
\* it leaves. The identifier takes no part in it.
IsAllowed(limiter, identifier, t) ==
    LET requests == PopOld(limiter.requests, t - 60) IN
    IF Len(requests) < limiter.rate_per_minute
    THEN [allowed |-> TRUE, wait_time |-> 0,
          requests |-> Append(requests, t)]
    ELSE [allowed |-> FALSE,
          wait_time |-> Max(0, 60 - (t - requests[1])),
          requests |-> requests]

\* RateLimiterManager.get_limiter: the limiter of the name, made with the
\* rate of the first call that names it.
GetLimiter(name, rate_per_minute) ==
    IF name \in DOMAIN limiters THEN limiters[name]
    ELSE NewLimiter(rate_per_minute)

\* RateLimiterManager.check_limit(name, rate_per_minute, identifier)
CheckLimitCall(name, rate_per_minute, identifier) ==
    /\ Len(lim_log) < MaxCalls
    /\ LET limiter == GetLimiter(name, rate_per_minute)
           answer == IsAllowed(limiter, identifier, now)
       IN /\ limiters' = DictSet(limiters, name,
                             [limiter EXCEPT !.requests = answer.requests])
          /\ lim_ret' = [allowed |-> answer.allowed,
                         wait_time |-> answer.wait_time]
          /\ lim_log' = Append(lim_log,
                             [name |-> name, identifier |-> identifier,
                              rate |-> limiter.rate_per_minute, t |-> now,
                              allowed |-> answer.allowed,
                              wait_time |-> answer.wait_time])
    /\ UNCHANGED <<execVars, sessVars, svcVars, pipeVars, memVars>>

NextLimiter ==
    \/ \E name \in LimiterNames, rate_per_minute \in Rates,
          identifier \in Identifiers :
            CheckLimitCall(name, rate_per_minute, identifier)
    \/ \E d \in LimiterTicks : Tick(d)

SpecLimiter == Init /\ [][NextLimiter]_vars

-----------------------------------------------------------------------------
(* Claims about the rate limiters, checked under SpecLimiter *)

\* The call that check_limit has just answered.
LastCall == lim_log[Len(lim_log)]

\* The earlier calls under the name (and, if given, the identifier) that
\* were allowed less than 60 seconds before time t.
AllowedWithin(log, name, ids, t) ==
    {i \in 1..Len(log) :
        /\ log[i].name = name
        /\ log[i].identifier \in ids
        /\ log[i].allowed
        /\ t - log[i].t < 60}

\* C12: for a limiter of rate N, once N calls were allowed within 60
\* seconds the next call is denied, every denied call reports a wait
\* greater than 0, and a call made after the oldest recorded timestamp has
\* left the window is allowed again.
C12_WindowOfN ==
    [][ (Len(lim_log') = Len(lim_log) + 1) =>
          LET e == LastCall' IN
          /\ (Cardinality(AllowedWithin(lim_log, e.name, Identifiers, e.t))
                 >= e.rate) => ~e.allowed
          /\ ~e.allowed => e.wait_time > 0
          /\ (/\ e.name \in DOMAIN limiters
              /\ limiters[e.name].requests # <<>>
              /\ e.t - limiters[e.name].requests[1] > 60) => e.allowed
      ]_vars

\* C13: the budget is kept per (name, identifier): a call is allowed when
\* fewer than N calls of its own name and identifier were allowed within
\* the window, whatever the calls of other identifiers.
C13_BudgetPerIdentifier ==
    [][ (Len(lim_log') = Len(lim_log) + 1) =>
          LET e == LastCall' IN
          (Cardinality(AllowedWithin(lim_log, e.name, {e.identifier}, e.t))
               < e.rate) => e.allowed
      ]_vars

-----------------------------------------------------------------------------
(* PipelineOrchestrator.process and _save_to_memory *)

\* Bound of the pipeline model: calls of process.
MaxProcessCalls == 1

\* The command of a call and the texts a plan can carry as response_text.
Command == "command"
ResponseTexts == {"", "text"}

\* The plans the planner hands to the executor.
PipelinePlans ==
    {p \in Plans : /\ p.type \in {"action_plan", "text_response"}
                   /\ p.actions \in {<<>>, <<LightOn>>}}

\* The stages, in the order process runs them.
Stages == <<"analyze", "resolve", "plan", "execute", "compose">>

\* A try block that starts after the first stage.
InTryAfterAnalyze(stage) ==
    stage \in {"resolve", "plan", "execute", "compose", "save"}

\* The statements of process that stand inside its try block.
InTry(stage) ==
    stage \in {"analyze", "resolve", "plan", "execute", "compose", "save"}

\* "int((time.time() - start_time) * 1000)"
DurationMs == (now - pipe.start_time) * 1000

\* ResponseComposer._build_response_text: the plan's response_text, with
\* the execution message after it when actions were executed.
BuildResponseText(response_text, execution_result) ==
    IF execution_result.executed > 0
    THEN IF response_text = "" THEN "message" ELSE "text\nmessage"
    ELSE response_text

\* The entry of process.
Process(c, d) ==
    /\ pcPipe = "idle"
    /\ pcExec = "idle"
    /\ pipe_calls < MaxProcessCalls
    /\ pipe_calls' = pipe_calls + 1
    /\ pcPipe' = "analyze"
    /\ pipe' = [confirmed |-> c, dry_run |-> d, start_time |-> now,
                finished0 |-> finished,
                history0 |-> Len(dialog_history), plan |-> NoPlan,
                response_text |-> "", execution_result |-> NoResult,
                text |-> ""]
    /\ stages_run' = <<>>
    /\ UNCHANGED <<execVars, sessVars, svcVars, limVars, memVars, pipe_ret, dialog_history>>

\* "except Exception as e": the error response, for a failure inside the
\* try block; a failure outside it leaves process as an exception.
StageRaises(stage) ==
    /\ pcPipe' = "idle"
    /\ stages_run' = Append(stages_run, stage)
    /\ pipe_ret' =
          IF InTry(stage)
          THEN [raised |-> FALSE, type |-> "error_response", text |-> "error",
                duration_ms |-> DurationMs, steps_completed |-> 0]
          ELSE [raised |-> TRUE, type |-> None, text |-> "",
                duration_ms |-> 0, steps_completed |-> 0]
    /\ UNCHANGED <<pipe, pipe_calls, dialog_history>>

\* intent_analyzer.analyze
Analyze(ok) ==
    /\ pcPipe = "analyze"
    /\ IF ok THEN /\ pcPipe' = "resolve"
                  /\ stages_run' = Append(stages_run, "analyze")
                  /\ UNCHANGED <<pipe, pipe_ret, pipe_calls, dialog_history>>
       ELSE StageRaises("analyze")
    /\ UNCHANGED <<execVars, sessVars, svcVars, limVars, memVars>>

\* context_resolver.resolve
Resolve(ok) ==
    /\ pcPipe = "resolve"
    /\ IF ok THEN /\ pcPipe' = "plan"
                  /\ stages_run' = Append(stages_run, "resolve")
                  /\ UNCHANGED <<pipe, pipe_ret, pipe_calls, dialog_history>>
       ELSE StageRaises("resolve")
    /\ UNCHANGED <<execVars, sessVars, svcVars, limVars, memVars>>

\* planner.plan: the plan p with the response text it carries.
PlanStage(ok, p, response_text) ==
    /\ pcPipe = "plan"
    /\ IF ok THEN /\ pcPipe' = "execute"
                  /\ stages_run' = Append(stages_run, "plan")
                  /\ pipe' = [pipe EXCEPT !.plan = p,
                                          !.response_text = response_text]
                  /\ UNCHANGED <<pipe_ret, pipe_calls, dialog_history>>
       ELSE StageRaises("plan")
    /\ UNCHANGED <<execVars, sessVars, svcVars, limVars, memVars>>

\* "await self.executor.execute(...)": the executor's run starts.
ExecuteStage ==
    /\ pcPipe = "execute"
    /\ finished = pipe.finished0
    /\ Execute(pipe.plan, pipe.confirmed, pipe.dry_run)

\* executor.execute raises before it has done anything.
ExecuteRaises ==
    /\ pcPipe = "execute"
    /\ finished = pipe.finished0
    /\ pcExec = "idle"
    /\ StageRaises("execute")
    /\ UNCHANGED <<execVars, sessVars, svcVars, limVars, memVars>>

\* The executor's run has returned its result dict.
ExecuteReturns ==
    /\ pcPipe = "execute"
    /\ finished = pipe.finished0 + 1
    /\ pcExec = "idle"
    /\ pcPipe' = "compose"
    /\ stages_run' = Append(stages_run, "execute")
    /\ pipe' = [pipe EXCEPT !.execution_result = ret]
    /\ UNCHANGED <<execVars, sessVars, svcVars, limVars, memVars, pipe_ret, pipe_calls,
                   dialog_history>>

\* response_composer.compose
ComposeStage(ok) ==
    /\ pcPipe = "compose"
    /\ IF ok THEN /\ pcPipe' = "save_user"
                  /\ stages_run' = Append(stages_run, "compose")
                  /\ pipe' = [pipe EXCEPT !.text =
                                 BuildResponseText(pipe.response_text,
                                                   pipe.execution_result)]
                  /\ UNCHANGED <<pipe_ret, pipe_calls, dialog_history>>
       ELSE StageRaises("compose")
    /\ UNCHANGED <<execVars, sessVars, svcVars, limVars, memVars>>

\* DialogHistory(...): a row of the dialog_history table; timestamp has the
\* default datetime.utcnow, the columns not given are NULL.
Row(user, role, content, memory_type, importance, expires_at) ==
    [user_id |-> user, role |-> role, content |-> content,
     timestamp |-> now, memory_type |-> memory_type,
     importance |-> importance, expires_at |-> expires_at]

\* memory_service.add_to_short_term: the row is added and committed, and
\* nothing is deleted.
AddToShortTerm(rows, user, role, content) ==
    Append(rows, Row(user, role, content, None, None, Never))

\* The role and the content of a turn.
Turn(role, content) == [role |-> role, content |-> content]

\* The turns of a sequence of rows.
Turns(rows) == [i \in 1..Len(rows) |-> Turn(rows[i].role, rows[i].content)]

\* _save_to_memory, the user message; a failure is logged and ends the
\* saving.
SaveUser(ok) ==
    /\ pcPipe = "save_user"
    /\ dialog_history' =
          IF ok THEN AddToShortTerm(dialog_history, "u1", "user", Command)
          ELSE dialog_history
    /\ pcPipe' = IF ok /\ pipe.text # "" THEN "save_assistant" ELSE "return"
    /\ stages_run' = Append(stages_run, "save")
    /\ UNCHANGED <<execVars, sessVars, svcVars, limVars, memVars, pipe, pipe_ret, pipe_calls>>

\* _save_to_memory, the assistant response: "if response_text:"
SaveAssistant(ok) ==
    /\ pcPipe = "save_assistant"
    /\ dialog_history' =
          IF ok THEN AddToShortTerm(dialog_history, "u1", "assistant",
                                    pipe.text)
          ELSE dialog_history
    /\ pcPipe' = "return"
    /\ UNCHANGED <<execVars, sessVars, svcVars, limVars, memVars, pipe, stages_run, pipe_ret,
                   pipe_calls>>

\* The pipeline metrics are added and the response is returned.
ProcessReturns ==
    /\ pcPipe = "return"
    /\ pcPipe' = "idle"
    /\ pipe_ret' = [raised |-> FALSE, type |-> pipe.plan.type,
                    text |-> pipe.text, duration_ms |-> DurationMs,
                    steps_completed |-> 5]
    /\ UNCHANGED <<execVars, sessVars, svcVars, limVars, memVars, pipe, stages_run, pipe_calls,
                   dialog_history>>

NextPipeline ==
    \/ \E c \in BOOLEAN, d \in BOOLEAN : Process(c, d)
    \/ \E ok \in BOOLEAN : Analyze(ok)
    \/ \E ok \in BOOLEAN : Resolve(ok)
    \/ \E ok \in BOOLEAN, p \in PipelinePlans, text \in ResponseTexts :
          PlanStage(ok, p, text)
    \/ ExecuteStage
    \/ ExecuteRaises
    \/ \E httpOk \in BOOLEAN : ExecuteHaAction(httpOk)
    \/ \E dbOk \in BOOLEAN : LogAction(dbOk)
    \/ ExecuteReturns
    \/ \E ok \in BOOLEAN : ComposeStage(ok)
    \/ \E ok \in BOOLEAN : SaveUser(ok)
    \/ \E ok \in BOOLEAN : SaveAssistant(ok)
    \/ ProcessReturns
    \/ pcPipe # "idle" /\ Tick(1)

SpecPipeline == Init /\ [][NextPipeline]_vars

-----------------------------------------------------------------------------
(* Claims about the pipeline, checked under SpecPipeline *)

\* The call of process returns in this step.
ProcessEnds == pcPipe # "idle" /\ pcPipe' = "idle"

\* C14: every run of process that returns a response has persisted the user
\* turn and then the assistant turn with the response text: the rows added
\* to the dialog history since the call started are these two, in this
\* order, whatever the path by which the run returns.
C14_TurnsPersisted ==
    [][ (ProcessEnds /\ ~pipe_ret'.raised) =>
            /\ SubSeq(dialog_history', 1, pipe.history0) =
                   SubSeq(dialog_history, 1, pipe.history0)
            /\ Turns(SubSeq(dialog_history', pipe.history0 + 1,
                             Len(dialog_history'))) =
                   <<Turn("user", Command),
                     Turn("assistant", pipe_ret'.text)>>
      ]_vars

\* C15: process never raises; when a stage fails, the stages run are those
\* up to the failing one, the call returns at once with a response of type
\* error_response that carries the elapsed time, and the failing step
\* neither touches the executor nor saves a turn.
C15_StageFailureIsErrorResponse ==
    [][ /\ ~pipe_ret'.raised
        /\ (ProcessEnds /\ pcPipe # "return") =>
              /\ pipe_ret'.type = "error_response"
              /\ pipe_ret'.duration_ms = (now - pipe.start_time) * 1000
              /\ stages_run' = SubSeq(Stages, 1, Len(stages_run'))
              /\ stages_run'[Len(stages_run')] = pcPipe
              /\ dialog_history' = dialog_history
              /\ UNCHANGED execVars
      ]_vars

\* The execute stage failed after a second had passed: the three stages
\* before it ran, compose did not, and the error response carries 1000 ms
\* or more.
C15_Witness ==
    /\ pcPipe = "idle"
    /\ pipe_ret.type = "error_response"
    /\ pipe_ret.duration_ms >= 1000
    /\ stages_run = <<"analyze", "resolve", "plan", "execute">>

-----------------------------------------------------------------------------
(* The recent store: app/services/memory_v2/short_term.py, on the table the
   pipeline writes through app/services/memory.py *)

\* settings.short_term_memory_size, 20 by default, made small.
short_term_memory_size == 2

\* Number of calls of the memory services explored.
MaxMemoryCalls == 2

\* The users whose rows are in the table.
StoreUsers == {"u1", "u2"}

\* "where(DialogHistory.user_id == user_id)": the positions of a user's rows
UserRows(rows, user) == {i \in 1..Len(rows) : rows[i].user_id = user}

\* "delete(DialogHistory).where(DialogHistory.id.in_(ids_to_delete))"
DeleteRows(rows, ids_to_delete) ==
    LET F[i \in 0..Len(rows)] ==
            IF i = 0 THEN <<>>
            ELSE IF i \in ids_to_delete THEN F[i - 1]
                 ELSE Append(F[i - 1], rows[i])
    IN  F[Len(rows)]

\* _cleanup_old_entries: nothing when the user has max_size rows or fewer;
\* else "order_by(desc(timestamp)).offset(self.max_size)", the rows after the
\* max_size most recent ones.  Rows of equal timestamp come in the order the
\* database gives them, any order.
IdsToDelete(rows, user, max_size) ==
    LET own == UserRows(rows, user)
        total == Cardinality(own)
    IN  IF total <= max_size THEN {{}}
        ELSE {ids \in SUBSET own :
                /\ Cardinality(ids) = total - max_size
                /\ \A d \in ids, k \in own \ ids :
                      rows[d].timestamp <= rows[k].timestamp}

\* ShortTermMemory.add on a table: the row is added and committed, then the
\* user's old rows are cleaned up.  The tables the call can leave.
ShortTermAdded(rows, row) ==
    LET added == Append(rows, row)
    IN  {DeleteRows(added, ids) :
            ids \in IdsToDelete(added, row.user_id, short_term_memory_size)}

\* ShortTermMemory.add called on its own
ShortTermAdd(user, role, content, memory_type, importance, expires_at) ==
    /\ mem_calls < MaxMemoryCalls
    /\ mem_calls' = mem_calls + 1
    /\ mem_args' = [user_id |-> user, content |-> content, role |-> role,
                    metadata |-> [role |-> None, intent |-> None,
                                 importance |-> None, expires_at |-> <<>>],
                    memory_type |-> memory_type]
    /\ dialog_history' \in
          ShortTermAdded(dialog_history,
                         Row(user, role, content, memory_type, importance,
                             expires_at))
    /\ UNCHANGED <<execVars, sessVars, svcVars, limVars, pcPipe, pipe, stages_run,
                   pipe_ret, pipe_calls, long_term, mem_ret, recalled,
                   policy_in, policy_ret>>

\* The pipeline and other writers of the recent store at work on one table.
NextRecent ==
    \/ NextPipeline
    \/ \E user \in StoreUsers :
          ShortTermAdd(user, "user", Command, "conversation", "low", Never)

SpecRecent == Init /\ [][NextRecent]_vars

-----------------------------------------------------------------------------
(* Claims about the recent store, checked under SpecRecent *)

\* C17: after every append to the recent store, by ShortTermMemory.add or
\* by the pipeline saving a turn, no user has more than
\* short_term_memory_size rows, and the rows the append removed are not more
\* recent than the rows of that user it kept.
C17_RecentStoreBounded ==
    [][ dialog_history' # dialog_history =>
          /\ \A user \in StoreUsers :
                Cardinality(UserRows(dialog_history', user))
                    <= short_term_memory_size
          /\ \E ids \in SUBSET (1..Len(dialog_history)) :
                /\ Len(dialog_history') = Len(dialog_history) + 1
                                             - Cardinality(ids)
                /\ SubSeq(dialog_history', 1, Len(dialog_history') - 1) =
                      DeleteRows(dialog_history, ids)
                /\ \A d \in ids, k \in 1..Len(dialog_history) \ ids :
                      dialog_history[d].user_id = dialog_history[k].user_id
                          => dialog_history[d].timestamp
                                <= dialog_history[k].timestamp
      ]_vars

-----------------------------------------------------------------------------
(* The memory policy: app/services/memory_v2/policy.py.  A text is the
   sequence of its characters. *)

\* The letters with an upper case form that the texts of the model use, as
\* str.lower maps them; a Cyrillic letter is written cy_ and its name.

UpperToLower ==
    "A" :> "a" @@ "B" :> "b" @@ "C" :> "c"
    @@ "D" :> "d" @@ "E" :> "e" @@ "F" :> "f"
    @@ "G" :> "g" @@ "H" :> "h" @@ "I" :> "i"
    @@ "J" :> "j" @@ "K" :> "k" @@ "L" :> "l"
    @@ "M" :> "m" @@ "N" :> "n" @@ "O" :> "o"
    @@ "P" :> "p" @@ "Q" :> "q" @@ "R" :> "r"
    @@ "S" :> "s" @@ "T" :> "t" @@ "U" :> "u"
    @@ "V" :> "v" @@ "W" :> "w" @@ "X" :> "x"
    @@ "Y" :> "y" @@ "Z" :> "z" @@ "CY_A" :> "cy_a"
    @@ "CY_BE" :> "cy_be" @@ "CY_VE" :> "cy_ve" @@ "CY_GHE" :> "cy_ghe"
    @@ "CY_DE" :> "cy_de" @@ "CY_IE" :> "cy_ie" @@ "CY_ZHE" :> "cy_zhe"
    @@ "CY_ZE" :> "cy_ze" @@ "CY_I" :> "cy_i" @@ "CY_KA" :> "cy_ka"
    @@ "CY_EL" :> "cy_el" @@ "CY_EM" :> "cy_em" @@ "CY_EN" :> "cy_en"
    @@ "CY_O" :> "cy_o" @@ "CY_PE" :> "cy_pe" @@ "CY_ER" :> "cy_er"
    @@ "CY_ES" :> "cy_es" @@ "CY_TE" :> "cy_te" @@ "CY_HA" :> "cy_ha"
    @@ "CY_CHE" :> "cy_che" @@ "CY_SHA" :> "cy_sha" 
    @@ "CY_SOFT_SIGN" :> "cy_soft_sign"
    @@ "CY_E" :> "cy_e" @@ "CY_YU" :> "cy_yu" @@ "CY_YA" :> "cy_ya"

\* should_save: short_responses, "ok", "da", "net", "yes", "no", "khorosho",
\* "ponyal"
short_responses ==
    {<<"o", "k">>,
     <<"cy_de", "cy_a">>,
     <<"cy_en", "cy_ie", "cy_te">>,
     <<"y", "e", "s">>,
     <<"n", "o">>,
     <<"cy_ha", "cy_o", "cy_er", "cy_o", "cy_sha", "cy_o">>,
     <<"cy_pe", "cy_o", "cy_en", "cy_ya", "cy_el">>}

\* classify_content: rule_keywords
rule_keywords ==
    {<<"cy_ze", "cy_a", "cy_pe", "cy_o", "cy_em", "cy_en", "cy_i">>,
     <<"cy_ve", "cy_es", "cy_ie", "cy_ghe", "cy_de", "cy_a">>,
     <<"cy_en", "cy_i", "cy_ka", "cy_o", "cy_ghe", "cy_de", "cy_a">>,
     <<"cy_pe", "cy_er", "cy_a", "cy_ve", "cy_i", "cy_el", "cy_o">>,
     <<"r", "e", "m", "e", "m", "b", "e", "r">>,
     <<"a", "l", "w", "a", "y", "s">>,
     <<"n", "e", "v", "e", "r">>,
     <<"r", "u", "l", "e">>}

\* classify_content: preference_keywords
preference_keywords ==
    {<<"cy_pe", "cy_er", "cy_ie", "cy_de", "cy_pe", "cy_o", "cy_che",
      "cy_i", "cy_te", "cy_a", "cy_yu">>,
     <<"cy_el", "cy_yu", "cy_be", "cy_el", "cy_yu">>,
     <<"cy_en", "cy_ie", " ", "cy_el", "cy_yu", "cy_be", "cy_el", "cy_yu">>,
     <<"p", "r", "e", "f", "e", "r">>,
     <<"l", "i", "k", "e">>,
     <<"d", "i", "s", "l", "i", "k", "e">>}

\* classify_content: fact_keywords
fact_keywords ==
    {<<"cy_e", "cy_te", "cy_o">>,
     <<"cy_te", "cy_a", "cy_ka", "cy_o", "cy_ie">>,
     <<"cy_o", "cy_ze", "cy_en", "cy_a", "cy_che", "cy_a", "cy_ie",
      "cy_te">>,
     <<"i", "s">>,
     <<"m", "e", "a", "n", "s">>,
     <<"r", "e", "f", "e", "r", "s">>}

\* classify_content: "oshibka" or "error"
error_keywords ==
    {<<"cy_o", "cy_sha", "cy_i", "cy_be", "cy_ka", "cy_a">>,
     <<"e", "r", "r", "o", "r">>}

\* determine_importance: high_importance_keywords
high_importance_keywords ==
    {<<"cy_ve", "cy_a", "cy_zhe", "cy_en", "cy_o">>,
     <<"cy_ze", "cy_a", "cy_pe", "cy_o", "cy_em", "cy_en", "cy_i">>,
     <<"cy_ve", "cy_es", "cy_ie", "cy_ghe", "cy_de", "cy_a">>,
     <<"cy_en", "cy_i", "cy_ka", "cy_o", "cy_ghe", "cy_de", "cy_a">>,
     <<"cy_o", "cy_be", "cy_ya", "cy_ze", "cy_a", "cy_te", "cy_ie",
      "cy_el", "cy_soft_sign", "cy_en", "cy_o">>,
     <<"i", "m", "p", "o", "r", "t", "a", "n", "t">>,
     <<"r", "e", "m", "e", "m", "b", "e", "r">>,
     <<"a", "l", "w", "a", "y", "s">>,
     <<"n", "e", "v", "e", "r">>,
     <<"m", "u", "s", "t">>}

\* " OK ", "hi", "Net", "hey there", "always lock up", "the lamp is on",
\* "turn on the lamp at 7 pm", "error 5"
TextEmpty == <<>>

TextBlanks == <<" ", " ">>

TextOk == <<" ", "O", "K", " ">>

TextHi == <<"h", "i">>

TextNet == <<"CY_EN", "cy_ie", "cy_te">>

TextHey == <<"h", "e", "y", " ", "t", "h", "e", "r", "e">>

TextRule ==
    <<"a", "l", "w", "a", "y", "s", " ", "l", "o", "c", "k", " ", "u", "p">>

TextFact ==
    <<"t", "h", "e", " ", "l", "a", "m", "p", " ", "i", "s", " ", "o", "n">>

TextLong ==
    <<"t", "u", "r", "n", " ", "o", "n", " ", "t", "h", "e", " ", "l", "a",
      "m", "p", " ", "a", "t", " ", "7", " ", "p", "m">>

TextError == <<"e", "r", "r", "o", "r", " ", "5">>

\* The texts given to the memory: nothing, blanks, acknowledgements in two
\* languages and cases, a short and a long conversation, a rule, a fact, an
\* error.
MemoryContents ==
    {TextEmpty, TextBlanks, TextOk, TextHi, TextNet, TextHey, TextRule,
     TextFact, TextLong, TextError}

\* str.lower, character by character
Lower(ch) == IF ch \in DOMAIN UpperToLower THEN UpperToLower[ch] ELSE ch

LowerStr(s) == [i \in 1..Len(s) |-> Lower(s[i])]

\* The characters str.strip removes at both ends.
Whitespace == {" ", "\t", "\n", "\r"}

RECURSIVE LStrip(_)
LStrip(s) ==
    IF s # <<>> /\ Head(s) \in Whitespace THEN LStrip(Tail(s)) ELSE s

RECURSIVE RStrip(_)
RStrip(s) ==
    IF s # <<>> /\ s[Len(s)] \in Whitespace
    THEN RStrip(SubSeq(s, 1, Len(s) - 1))
    ELSE s

Strip(s) == RStrip(LStrip(s))

\* "kw in content_lower"
Contains(s, kw) ==
    \E i \in 1..(Len(s) - Len(kw) + 1) : SubSeq(s, i, i + Len(kw) - 1) = kw

\* "any(kw in content_lower for kw in keywords)"
AnyIn(keywords, s) == \E kw \in keywords : Contains(s, kw)

\* The metadata of a call: the keys the policy reads and the keys the
\* vector store writes itself, None for a key that is not given (<<>> for
\* expires_at, <<t>> when given).  No key given stands for None and for the
\* empty dict.
NoMetadata ==
    [role |-> None, intent |-> None, importance |-> None, expires_at |-> <<>>]

Metadatas ==
    {NoMetadata, [NoMetadata EXCEPT !.role = "system"],
     [NoMetadata EXCEPT !.intent = "ha_control"]}

\* "if metadata": a dict with a key
MetadataGiven(metadata) == metadata # NoMetadata

MemoryTypes ==
    {"conversation", "preference", "rule", "fact", "action", "error"}

Importances == {"low", "medium", "high", "critical"}

\* "len(content) >= 20"
MinConversationLength == 20

\* "len(content) > 100"
LongConversationLength == 100

\* MemoryPolicy.should_save
ShouldSave(content, memory_type, metadata) ==
    IF content = <<>> \/ Len(Strip(content)) < 3 THEN FALSE
    ELSE IF MetadataGiven(metadata) /\ metadata.role = "system" THEN FALSE
    ELSE IF Strip(LowerStr(content)) \in short_responses THEN FALSE
    ELSE IF memory_type \in {"rule", "preference"} THEN TRUE
    ELSE IF memory_type = "action" THEN TRUE
    ELSE IF memory_type = "conversation"
            /\ Len(content) >= MinConversationLength THEN TRUE
    ELSE IF memory_type = "fact" THEN TRUE
    ELSE FALSE

\* MemoryPolicy.determine_importance
DetermineImportance(content, memory_type, metadata) ==
    IF memory_type \in {"rule", "preference"} THEN "critical"
    ELSE IF memory_type = "action" THEN "high"
    ELSE IF memory_type = "fact" THEN "high"
    ELSE IF memory_type = "error" THEN "medium"
    ELSE IF AnyIn(high_importance_keywords, LowerStr(content)) THEN "high"
    ELSE IF Len(content) > LongConversationLength THEN "medium"
    ELSE "low"

\* MemoryPolicy.should_save_to_short_term
ShouldSaveToShortTerm(importance) == TRUE

\* MemoryPolicy.should_save_to_long_term
ShouldSaveToLongTerm(importance) ==
    importance \in {"medium", "high", "critical"}

\* MemoryPolicy.RETENTION_POLICY, in days
RETENTION_POLICY ==
    [low |-> 1, medium |-> 7, high |-> 30, critical |-> Never]

\* MemoryPolicy.get_retention_days
GetRetentionDays(importance) == RETENTION_POLICY[importance]

\* The seconds of timedelta(days=1), the clock counting seconds.
SecondsPerDay == 86400

\* MemoryPolicy.get_expiration_date with created_at None
GetExpirationDate(importance) ==
    LET retention_days == GetRetentionDays(importance)
    IN  IF retention_days = Never THEN Never
        ELSE now + retention_days * SecondsPerDay

\* MemoryPolicy.classify_content
ClassifyContent(content, role, metadata) ==
    LET content_lower == LowerStr(content)
    IN  IF AnyIn(rule_keywords, content_lower) THEN "rule"
        ELSE IF AnyIn(preference_keywords, content_lower) THEN "preference"
        ELSE IF AnyIn(fact_keywords, content_lower) THEN "fact"
        ELSE IF MetadataGiven(metadata)
                /\ metadata.intent \in {"ha_control", "ha_automation"}
             THEN "action"
        ELSE IF AnyIn(error_keywords, content_lower) THEN "error"
        ELSE "conversation"

-----------------------------------------------------------------------------
(* The memory manager: app/services/memory_v2/manager.py, with the vector
   store of app/services/memory_v2/long_term.py *)

\* The metadata remember hands to the vector store: the caller's keys, then
\* "role" and "expires_at" (Never for None), which replace the caller's.
RememberMetadata(metadata, role, expires_at) ==
    [metadata EXCEPT !.role = role, !.expires_at = expires_at]

\* LongTermMemory.add: the entry with its full_metadata, the keys of the
\* metadata given coming last and replacing the store's own "importance";
\* "disabled" is long_term_memory_enabled false.
LongTermAdded(entries, user, content, memory_type, importance, metadata,
              outcome) ==
    IF outcome = "disabled" THEN entries
    ELSE Append(entries,
                [user_id |-> user, content |-> content,
                 memory_type |-> memory_type,
                 importance |-> IF metadata.importance # None
                                THEN metadata.importance
                                ELSE importance,
                 timestamp |-> now, role |-> metadata.role,
                 expires_at |-> metadata.expires_at])

\* What a call of remember returned.
Remembered(saved, raised, memory_type, importance, saved_to, expires_at) ==
    [saved |-> saved, raised |-> raised, memory_type |-> memory_type,
     importance |-> importance, saved_to |-> saved_to,
     expires_at |-> expires_at]

\* MemoryManager.remember.  lt is what the vector store does with an entry:
\* "ok", "disabled", or "raises" when it is not initialized or the embedding
\* fails, an exception remember lets through.
Remember(user, content, role, metadata, memory_type_given, lt) ==
    /\ mem_calls < MaxMemoryCalls
    /\ mem_calls' = mem_calls + 1
    /\ mem_args' = [user_id |-> user, content |-> content, role |-> role,
                    metadata |-> metadata, memory_type |-> memory_type_given]
    /\ LET memory_type ==
               IF memory_type_given = None
               THEN ClassifyContent(content, role, metadata)
               ELSE memory_type_given
           importance == DetermineImportance(content, memory_type, metadata)
           expires_at == GetExpirationDate(importance)
           to_short == ShouldSaveToShortTerm(importance)
           to_long == ShouldSaveToLongTerm(importance)
       IN  IF ~ShouldSave(content, memory_type, metadata)
           THEN /\ mem_ret' = Remembered(FALSE, FALSE, None, None, <<>>, Never)
                /\ UNCHANGED <<dialog_history, long_term>>
           ELSE /\ IF to_short
                   THEN dialog_history' \in
                          ShortTermAdded(dialog_history,
                                         Row(user, role, content, memory_type,
                                             importance, expires_at))
                   ELSE dialog_history' = dialog_history
                /\ IF to_long /\ lt # "raises"
                   THEN long_term' =
                          LongTermAdded(long_term, user, content, memory_type,
                                        importance,
                                        RememberMetadata(metadata, role,
                                                         expires_at),
                                        lt)
                   ELSE long_term' = long_term
                /\ mem_ret' =
                     IF to_long /\ lt = "raises"
                     THEN Remembered(FALSE, TRUE, None, None, <<>>, Never)
                     ELSE Remembered(TRUE, FALSE, memory_type, importance,
                                     (IF to_short THEN <<"short_term">>
                                      ELSE <<>>)
                                     \o (IF to_long THEN <<"long_term">>
                                         ELSE <<>>),
                                     expires_at)
    /\ UNCHANGED <<execVars, sessVars, svcVars, limVars, pcPipe, pipe, stages_run,
                   pipe_ret, pipe_calls, recalled, policy_in, policy_ret>>

\* Calls of remember with every kind of text, role and metadata.
NextRemember ==
    \E content \in MemoryContents, role \in {"user", "assistant", "system"},
          metadata \in Metadatas, memory_type \in {None, "action"},
          lt \in {"ok", "disabled", "raises"} :
          Remember("u1", content, role, metadata, memory_type, lt)

SpecRemember == Init /\ [][NextRemember]_vars

\* Metadata with keys of the caller's own choosing: an importance, an
\* expiration.
CallerMetadatas ==
    {NoMetadata, [NoMetadata EXCEPT !.importance = "critical"],
     [NoMetadata EXCEPT !.importance = "low"],
     [NoMetadata EXCEPT !.expires_at = <<SecondsPerDay>>]}

\* Calls of remember with a rule, a fact and a long conversation and such
\* metadata.
NextRememberMetadata ==
    \E content \in {TextRule, TextFact, TextLong},
          role \in {"user", "assistant"}, metadata \in CallerMetadatas,
          lt \in {"ok", "disabled", "raises"} :
          Remember("u1", content, role, metadata, None, lt)

SpecRememberMetadata == Init /\ [][NextRememberMetadata]_vars

\* C30: every entry of the recent store and of the semantic store with
\* importance critical has no expiration, whatever metadata remember was
\* called with.
C30_CriticalNeverExpires ==
    /\ \A i \in DOMAIN dialog_history :
          dialog_history[i].importance = "critical" =>
              dialog_history[i].expires_at = Never
    /\ \A i \in DOMAIN long_term :
          long_term[i].importance = "critical" =>
              long_term[i].expires_at = Never

\* The same for the recent store alone.
RecentCriticalNeverExpires ==
    \A i \in DOMAIN dialog_history :
       dialog_history[i].importance = "critical" =>
           dialog_history[i].expires_at = Never

-----------------------------------------------------------------------------
(* Claims about remember, checked under SpecRemember *)

\* The acknowledgements "ok", "yes", "no" and "khorosho", "da", "net".
Acknowledgements ==
    {<<"o", "k">>, <<"y", "e", "s">>, <<"n", "o">>,
     <<"cy_ha", "cy_o", "cy_er", "cy_o", "cy_sha", "cy_o">>,
     <<"cy_de", "cy_a">>, <<"cy_en", "cy_ie", "cy_te">>}

\* A call of remember returns in this step.
RememberReturns == mem_calls' = mem_calls + 1

\* C18: a call of remember whose role is system, or whose content has fewer
\* than 3 characters once stripped, or is only a short acknowledgement,
\* writes to neither store and returns saved = false.
C18_FilteredNeverSaved ==
    [][ (/\ RememberReturns
         /\ \/ mem_args'.role = "system"
            \/ Len(Strip(mem_args'.content)) < 3
            \/ Strip(LowerStr(mem_args'.content)) \in Acknowledgements) =>
            /\ dialog_history' = dialog_history
            /\ long_term' = long_term
            /\ ~mem_ret'.raised
            /\ ~mem_ret'.saved
      ]_vars

-----------------------------------------------------------------------------
(* MemoryPolicy.should_cleanup, applied to one memory *)

\* The moments of the policy calls, of one and of two digits.
PolicyTimes == {0, 9, 10, 11}

DecimalDigits == <<"0", "1", "2", "3", "4", "5", "6", "7", "8", "9">>

\* datetime.isoformat: the moment written in digits, its fields of fixed
\* width, here two digits with a leading zero
Isoformat(t) ==
    <<DecimalDigits[((t \div 10) % 10) + 1], DecimalDigits[(t % 10) + 1]>>

DigitValue(ch) == CHOOSE v \in 0..9 : DecimalDigits[v + 1] = ch

\* datetime.fromisoformat: the moment read from its digits
RECURSIVE FromIsoformat(_)
FromIsoformat(str) ==
    IF Len(str) = 1 THEN DigitValue(str[1])
    ELSE FromIsoformat(SubSeq(str, 1, Len(str) - 1)) * 10
         + DigitValue(str[Len(str)])

\* The value under the key "expires_at": None, a datetime or a string
NoExpiration == [kind |-> "none", at |-> Never, iso |-> <<>>]

ExpiresAtDatetime(t) == [kind |-> "datetime", at |-> t, iso |-> <<>>]

ExpiresAtStr(str) == [kind |-> "str", at |-> Never, iso |-> str]

\* The memories given to should_cleanup, as the stores return them
\* ("expires_at": entry.expires_at.isoformat() or None) and as dictionaries
\* holding a datetime, with every importance or none.
PolicyMemories ==
    [importance : Importances \cup {None},
     expires_at : {NoExpiration, ExpiresAtStr(<<>>)}
                  \cup {ExpiresAtDatetime(t) : t \in PolicyTimes}
                  \cup {ExpiresAtStr(Isoformat(t)) : t \in PolicyTimes}]

\* "if expires_at": None and the empty string are false
ExpiresAtGiven(expires_at) ==
    \/ expires_at.kind = "datetime"
    \/ expires_at.kind = "str" /\ expires_at.iso # <<>>

\* "if isinstance(expires_at, str): datetime.fromisoformat(expires_at)"
ExpiresAtMoment(expires_at) ==
    IF expires_at.kind = "str" THEN FromIsoformat(expires_at.iso)
    ELSE expires_at.at

\* MemoryPolicy.should_cleanup
ShouldCleanup(memory, current_time_given) ==
    LET current_time ==
            IF current_time_given = Never THEN now ELSE current_time_given
        expires_at == memory.expires_at
    IN  IF ExpiresAtGiven(expires_at)
           /\ current_time >= ExpiresAtMoment(expires_at) THEN TRUE
        ELSE IF memory.importance = "critical" THEN FALSE
        ELSE FALSE

\* A call of should_cleanup with the arguments under study
ShouldCleanupCall ==
    /\ ~policy_ret.called
    /\ policy_ret' =
          [called |-> TRUE,
           value |-> ShouldCleanup(policy_in.memory, policy_in.current_time)]
    /\ UNCHANGED <<execVars, sessVars, svcVars, limVars, pipeVars, long_term, mem_ret,
                   mem_calls, mem_args, recalled, policy_in>>

\* Any memory and any moment, or none for the current time.
InitPolicy ==
    /\ InitExec
    /\ SessionStart
    /\ user_messages = EmptyDict
    /\ LimiterStart
    /\ PipelineStart
    /\ MemoryStart
    /\ SvcStart
    /\ policy_in \in [memory : PolicyMemories,
                      current_time : PolicyTimes \cup {Never}]
    /\ policy_ret = [called |-> FALSE, value |-> FALSE]

NextPolicy == ShouldCleanupCall

SpecPolicy == InitPolicy /\ [][NextPolicy]_vars

-----------------------------------------------------------------------------
(* Claims about the memory policy, checked under SpecPolicy *)

\* C19: should_cleanup returns false for every memory of critical
\* importance, whatever its expires_at, one in the past included.
C19_CriticalNeverCleaned ==
    (policy_ret.called /\ policy_in.memory.importance = "critical")
        => ~policy_ret.value

-----------------------------------------------------------------------------
(* MemoryManager.recall over the two stores *)

\* The limits of the calls of recall; 5 is the default.
Limits == {1, 2, 5}

\* A key that a returned memory does not have.
NoKey == <<>>

\* ShortTermMemory.get_recent: a memory as it is returned
ShortTermEntry(row) ==
    [store |-> "short_term", content |-> row.content,
     timestamp |-> Isoformat(row.timestamp), metadata_timestamp |-> NoKey]

\* LongTermMemory.search: a memory as it is returned, its timestamp in the
\* metadata where LongTermMemory.add wrote it
LongTermEntry(entry) ==
    [store |-> "long_term", content |-> entry.content,
     timestamp |-> NoKey, metadata_timestamp |-> Isoformat(entry.timestamp)]

Min(a, b) == IF a <= b THEN a ELSE b

\* The sequences of n different elements of a set.
Arrangements(set, n) ==
    {seq \in [1..n -> set] : \A i, j \in 1..n : i # j => seq[i] # seq[j]}

Reverse(seq) == [i \in 1..Len(seq) |-> seq[Len(seq) + 1 - i]]

\* ShortTermMemory.get_recent: the user's rows, of the type if one is
\* given, "order_by(desc(timestamp)).limit(limit)", returned oldest first.
\* Rows of equal timestamp come in any order.
GetRecent(rows, user, limit, memory_type) ==
    LET own == {i \in UserRows(rows, user) :
                   memory_type = None \/ rows[i].memory_type = memory_type}
        n == Min(limit, Cardinality(own))
        entries ==
            {seq \in Arrangements(own, n) :
                /\ \A i, j \in 1..n :
                      i < j => rows[seq[i]].timestamp >= rows[seq[j]].timestamp
                /\ \A i \in 1..n, k \in own :
                      (\A j \in 1..n : seq[j] # k)
                          => rows[k].timestamp <= rows[seq[i]].timestamp}
    IN  {Reverse([i \in 1..n |-> ShortTermEntry(rows[seq[i]])]) :
            seq \in entries}

\* LongTermMemory._get_collection_name
CollectionName(memory_type) ==
    CASE memory_type = "conversation" -> "conversations"
      [] memory_type = "preference" -> "preferences"
      [] memory_type = "rule" -> "rules"
      [] memory_type = "fact" -> "facts"
      [] memory_type = "action" -> "actions"
      [] OTHER -> "conversations"

\* LongTermMemory.search: entries of the user, from the collection of the
\* type if one is given, those similar enough to the query, by decreasing
\* similarity, limit at most; none when the store is disabled or fails.
\* What is similar to what is left open.
Search(entries, user, memory_type, limit) ==
    LET own == {i \in 1..Len(entries) :
                   /\ entries[i].user_id = user
                   /\ \/ memory_type = None
                      \/ CollectionName(entries[i].memory_type)
                            = CollectionName(memory_type)}
    IN  UNION {{[i \in 1..n |-> LongTermEntry(entries[seq[i]])] :
                   seq \in Arrangements(own, n)} :
               n \in 0..Min(limit, Cardinality(own))}

\* A merge that removes nothing.
UniqueNothingSeen(merged) == merged

\* "if content not in seen: seen.add(content); unique.append(mem)"
Unique(merged) ==
    LET F[i \in 0..Len(merged)] ==
            IF i = 0 THEN <<>>
            ELSE IF \E j \in 1..(i - 1) : merged[j].content = merged[i].content
                 THEN F[i - 1]
                 ELSE Append(F[i - 1], merged[i])
    IN  F[Len(merged)]

\* x.get("timestamp", x.get("metadata", {}).get("timestamp", ""))
SortKey(mem) ==
    IF mem.timestamp # NoKey THEN mem.timestamp ELSE mem.metadata_timestamp

\* a < b for two strings of digits, as Python compares strings
RECURSIVE StrLess(_, _)
StrLess(a, b) ==
    IF b = <<>> THEN FALSE
    ELSE IF a = <<>> THEN TRUE
    ELSE IF Head(a) = Head(b) THEN StrLess(Tail(a), Tail(b))
    ELSE DigitValue(Head(a)) < DigitValue(Head(b))

\* list.sort(key=..., reverse=True): by decreasing key, memories of equal
\* key in the order they had.
SortReverse(mems) ==
    LET Insert(sorted, mem) ==
            LET before == Cardinality({j \in 1..Len(sorted) :
                              ~StrLess(SortKey(sorted[j]), SortKey(mem))})
            IN  SubSeq(sorted, 1, before) \o <<mem>>
                \o SubSeq(sorted, before + 1, Len(sorted))
        F[i \in 0..Len(mems)] ==
            IF i = 0 THEN <<>> ELSE Insert(F[i - 1], mems[i])
    IN  F[Len(mems)]

\* "unique[:limit]"
FirstN(seq, n) == SubSeq(seq, 1, Min(n, Len(seq)))

\* MemoryManager.recall
Recall(user, memory_type, search_strategy, limit) ==
    /\ \E recent \in GetRecent(dialog_history, user,
                               IF search_strategy = "recent" THEN limit
                               ELSE limit \div 2, memory_type),
          semantic \in Search(long_term, user, memory_type,
                              IF search_strategy = "semantic" THEN limit
                              ELSE limit \div 2) :
          recalled' =
             [called |-> TRUE, user_id |-> user, limit |-> limit,
              memory_type |-> memory_type,
              search_strategy |-> search_strategy,
              result |->
                 IF search_strategy = "recent" THEN recent
                 ELSE IF search_strategy = "semantic" THEN semantic
                 ELSE FirstN(SortReverse(Unique(recent \o semantic)), limit)]
    /\ UNCHANGED <<execVars, sessVars, svcVars, limVars, pipeVars, long_term, mem_ret,
                   mem_calls, mem_args, policy_in, policy_ret>>

\* Texts remembered by two users while the clock moves, and recalled.
NextRecall ==
    \/ \E content \in {TextFact, TextLong} :
          Remember("u1", content, "user", NoMetadata, None, "ok")
    \/ Remember("u2", TextFact, "user", NoMetadata, None, "ok")
    \/ \E memory_type \in {None, "fact"},
          search_strategy \in {"hybrid", "recent", "semantic"},
          limit \in Limits :
          Recall("u1", memory_type, search_strategy, limit)
    \/ Tick(1)

SpecRecall == Init /\ [][NextRecall]_vars

-----------------------------------------------------------------------------
(* Claims about recall, checked under SpecRecall *)

\* The number of memories of a result that come from a store.
FromStore(mems, store) ==
    Cardinality({i \in 1..Len(mems) : mems[i].store = store})

\* C20: the result of a recall of strategy hybrid has no two entries of
\* identical content, has at most limit entries, at most half of limit of
\* them from each store, and is ordered by timestamp, the most recent first.
C20_HybridRecall ==
    (recalled.called /\ recalled.search_strategy = "hybrid") =>
        LET mems == recalled.result
        IN  /\ \A i, j \in 1..Len(mems) :
                  i # j => mems[i].content # mems[j].content
            /\ Len(mems) <= recalled.limit
            /\ 2 * FromStore(mems, "short_term") <= recalled.limit
            /\ 2 * FromStore(mems, "long_term") <= recalled.limit
            /\ \A i, j \in 1..Len(mems) :
                  i < j => ~StrLess(SortKey(mems[i]), SortKey(mems[j]))

\* A hybrid recall found the same text in both stores and a more recent one
\* in the recent store: the result has the two texts, the recent one first,
\* one entry from each store being left out or merged.
C20_Witness ==
    /\ recalled.called
    /\ recalled.search_strategy = "hybrid"
    /\ recalled.limit = 5
    /\ Len(recalled.result) = 2
    /\ StrLess(SortKey(recalled.result[2]), SortKey(recalled.result[1]))
    /\ \E i \in 1..Len(long_term), j \in 1..Len(dialog_history) :
          /\ long_term[i].content = dialog_history[j].content
          /\ long_term[i].user_id = "u1"
          /\ dialog_history[j].user_id = "u1"

\* C21: the result of a recall of strategy recent holds memories of the
\* recent store only, at most limit of them, the newest first.
C21_RecentRecall ==
    (recalled.called /\ recalled.search_strategy = "recent") =>
        LET mems == recalled.result
        IN  /\ \A i \in 1..Len(mems) : mems[i].store = "short_term"
            /\ Len(mems) <= recalled.limit
            /\ \A i, j \in 1..Len(mems) :
                  i < j => ~StrLess(SortKey(mems[i]), SortKey(mems[j]))

-----------------------------------------------------------------------------
\* The embedding service (memory_v2/embeddings.py). A call of embed runs to
\* its await of the embeddings endpoint and ends when the event loop resumes
\* it with the response; other calls run in between.

MaxEmbedCalls == 2

EmbedTexts == {"t1", "t2"}

\* What the endpoint can answer for a text.
Vectors == {"v1", "v2"}

\* A call of embed: where it stands, and what it returned once it has.
EmbedTask(text, use_cache, pc, requested, vector) ==
    [text |-> text, use_cache |-> use_cache, pc |-> pc,
     requested |-> requested, ret |-> vector]

\* initialize: the client is made.
EmbInitialize ==
    /\ ~emb_client
    /\ emb_client' = TRUE
    /\ UNCHANGED <<embOthers, emb_cache, emb_tasks, emb_requests>>

\* embed, to the return from the cache, the raise for a service that is not
\* initialized, or the await of the endpoint.
EmbedCall(text, use_cache) ==
    /\ Len(emb_tasks) < MaxEmbedCalls
    /\ IF ~emb_client
       THEN /\ emb_tasks' = Append(emb_tasks,
                   EmbedTask(text, use_cache, "raised", FALSE, None))
            /\ UNCHANGED emb_requests
       ELSE IF use_cache /\ text \in DOMAIN emb_cache
       THEN /\ emb_tasks' = Append(emb_tasks,
                   EmbedTask(text, use_cache, "returned", FALSE,
                             emb_cache[text]))
            /\ UNCHANGED emb_requests
       ELSE /\ emb_requests' = Append(emb_requests, text)
            /\ emb_tasks' = Append(emb_tasks,
                   EmbedTask(text, use_cache, "awaiting", TRUE, None))
    /\ UNCHANGED <<embOthers, emb_client, emb_cache>>

\* embed, from the answer of the endpoint to the end: the vector is cached and
\* returned, or the failure of the request is raised again.
EmbedResume(i, outcome, embedding) ==
    /\ i \in DOMAIN emb_tasks
    /\ emb_tasks[i].pc = "awaiting"
    /\ IF outcome = "ok"
       THEN /\ emb_cache' = IF emb_tasks[i].use_cache
                            THEN DictSet(emb_cache, emb_tasks[i].text,
                                         embedding)
                            ELSE emb_cache
            /\ emb_tasks' = [emb_tasks EXCEPT ![i].pc = "returned",
                                              ![i].ret = embedding]
       ELSE /\ emb_tasks' = [emb_tasks EXCEPT ![i].pc = "raised"]
            /\ UNCHANGED emb_cache
    /\ UNCHANGED <<embOthers, emb_client, emb_requests>>

NextEmbed ==
    \/ EmbInitialize
    \/ \E text \in EmbedTexts, use_cache \in BOOLEAN :
          EmbedCall(text, use_cache)
    \/ \E i \in 1..MaxEmbedCalls, outcome \in {"ok", "raises"},
          embedding \in Vectors :
          EmbedResume(i, outcome, embedding)

SpecEmbed == Init /\ [][NextEmbed]_vars

\* Two calls of embed for one text, both with the cache on, both returned.
CachedPair(i, j) ==
    /\ i < j
    /\ emb_tasks[i].text = emb_tasks[j].text
    /\ emb_tasks[i].use_cache /\ emb_tasks[j].use_cache
    /\ emb_tasks[i].pc = "returned" /\ emb_tasks[j].pc = "returned"

\* C22: two calls of embed for the same text with the cache on return equal
\* vectors, and at most one of them sends a request to the endpoint.
C22_EmbedOnce ==
    \A i, j \in DOMAIN emb_tasks :
        CachedPair(i, j) =>
            /\ emb_tasks[i].ret = emb_tasks[j].ret
            /\ ~(emb_tasks[i].requested /\ emb_tasks[j].requested)

-----------------------------------------------------------------------------
\* The recency policy of the searches and the pre-classifier
\* (app/services/search/policies.py). A number of days that may be absent
\* is NoDays or <<n>>.

SearchCategories ==
    {"news", "tech_news", "weather", "transport", "stocks", "sports",
     "tech_docs", "tutorials", "shopping", "historical", "general"}

Policy(requirement, max_days, preferred_days) ==
    [requirement |-> requirement, max_days |-> max_days,
     preferred_days |-> preferred_days]

\* RecencyPolicy.POLICIES
POLICIES ==
    "news" :> Policy("mandatory", <<7>>, <<1>>)
    @@ "tech_news" :> Policy("mandatory", <<7>>, <<3>>)
    @@ "weather" :> Policy("mandatory", <<1>>, <<1>>)
    @@ "transport" :> Policy("mandatory", <<1>>, <<1>>)
    @@ "stocks" :> Policy("mandatory", <<1>>, <<1>>)
    @@ "sports" :> Policy("mandatory", <<7>>, <<1>>)
    @@ "tech_docs" :> Policy("recommended", <<180>>, <<30>>)
    @@ "tutorials" :> Policy("recommended", <<365>>, <<90>>)
    @@ "shopping" :> Policy("recommended", <<30>>, <<7>>)
    @@ "historical" :> Policy("forbidden", NoDays, NoDays)
    @@ "general" :> Policy("recommended", <<30>>, <<7>>)

GetPolicy(category) ==
    IF category \in DOMAIN POLICIES THEN POLICIES[category]
    ELSE POLICIES["general"]

\* The truth value of an Optional[int]: None and 0 are false.
DaysGiven(days) == days # NoDays /\ days[1] # 0

\* enforce_recency: the decision, without its texts.
EnforceRecency(category, requested_days) ==
    LET policy == GetPolicy(category)
        requirement == policy.requirement
        start == [category |-> category, requirement |-> requirement,
                  enforced |-> FALSE, recency_days |-> NoDays]
    IN  IF requirement = "mandatory"
        THEN IF requested_days = NoDays
                \/ requested_days[1] > policy.max_days[1]
             THEN [start EXCEPT !.recency_days = policy.preferred_days,
                                !.enforced = TRUE]
             ELSE [start EXCEPT !.recency_days = requested_days]
        ELSE IF requirement = "recommended"
        THEN [start EXCEPT !.recency_days =
                 IF DaysGiven(requested_days) THEN requested_days
                 ELSE policy.preferred_days]
        ELSE IF requirement = "forbidden"
        THEN [start EXCEPT !.recency_days = NoDays,
                           !.enforced = DaysGiven(requested_days)]
        ELSE [start EXCEPT !.recency_days = requested_days]

MinReasonLength == 20

\* A validation that asks for a reason only.
ValidateOverrideReasonOnly(category, override_days, reason) ==
    ~(Len(reason) < MinReasonLength)

\* validate_override
ValidateOverride(category, override_days, reason) ==
    LET requirement == GetPolicy(category).requirement
    IN  IF requirement = "mandatory" THEN FALSE
        ELSE IF requirement = "forbidden" /\ override_days # NoDays
        THEN FALSE
        ELSE IF requirement = "recommended"
        THEN ~(Len(reason) < MinReasonLength)
        ELSE TRUE

\* PreClassifier.PATTERNS, in the order of the table; the keywords as texts.
PATTERNS ==
    <<[category |-> "news",
       patterns |->
         {<<"cy_en", "cy_o", "cy_ve", "cy_o", "cy_es", "cy_te", "cy_i">>,
          <<"n", "e", "w", "s">>,
          <<"cy_es", "cy_ie", "cy_ghe", "cy_o", "cy_de", "cy_en", "cy_ya">>,
          <<"cy_ve", "cy_che", "cy_ie", "cy_er", "cy_a">>,
          <<"t", "o", "d", "a", "y">>,
          <<"y", "e", "s", "t", "e", "r", "d", "a", "y">>,
          <<"cy_es", "cy_el", "cy_u", "cy_che", "cy_i", "cy_el", "cy_o",
            "cy_es", "cy_soft_sign">>,
          <<"h", "a", "p", "p", "e", "n", "e", "d">>,
          <<"e", "v", "e", "n", "t", "s">>}],
      [category |-> "tech_news",
       patterns |->
         {<<"a", "i", " ", "n", "e", "w", "s">>,
          <<"t", "e", "c", "h", " ", "n", "e", "w", "s">>,
          <<"cy_en", "cy_o", "cy_ve", "cy_o", "cy_es", "cy_te", "cy_i", " ",
            "cy_te", "cy_ie", "cy_ha", "cy_en", "cy_o", "cy_el", "cy_o",
            "cy_ghe", "cy_i", "cy_short_i">>,
          <<"cy_en", "cy_o", "cy_ve", "cy_o", "cy_es", "cy_te", "cy_i", " ",
            "a", "i">>,
          <<"cy_ve", "cy_yeru", "cy_pe", "cy_u", "cy_es", "cy_te", "cy_i",
            "cy_el", "cy_i">>,
          <<"r", "e", "l", "e", "a", "s", "e", "d">>,
          <<"cy_a", "cy_en", "cy_o", "cy_en", "cy_es">>,
          <<"a", "n", "n", "o", "u", "n", "c", "e", "m", "e", "n", "t">>}],
      [category |-> "weather",
       patterns |->
         {<<"cy_pe", "cy_o", "cy_ghe", "cy_o", "cy_de", "cy_a">>,
          <<"w", "e", "a", "t", "h", "e", "r">>,
          <<"cy_te", "cy_ie", "cy_em", "cy_pe", "cy_ie", "cy_er", "cy_a",
            "cy_te", "cy_u", "cy_er", "cy_a">>,
          <<"t", "e", "m", "p", "e", "r", "a", "t", "u", "r", "e">>,
          <<"cy_pe", "cy_er", "cy_o", "cy_ghe", "cy_en", "cy_o", "cy_ze">>,
          <<"f", "o", "r", "e", "c", "a", "s", "t">>,
          <<"cy_de", "cy_o", "cy_zhe", "cy_de", "cy_soft_sign">>,
          <<"r", "a", "i", "n">>,
          <<"cy_es", "cy_en", "cy_ie", "cy_ghe">>,
          <<"s", "n", "o", "w">>}],
      [category |-> "transport",
       patterns |->
         {<<"cy_er", "cy_a", "cy_es", "cy_pe", "cy_i", "cy_es", "cy_a",
            "cy_en", "cy_i", "cy_ie">>,
          <<"s", "c", "h", "e", "d", "u", "l", "e">>,
          <<"cy_pe", "cy_o", "cy_ie", "cy_ze", "cy_de">>,
          <<"t", "r", "a", "i", "n">>,
          <<"cy_e", "cy_el", "cy_ie", "cy_ka", "cy_te", "cy_er", "cy_i",
            "cy_che", "cy_ka", "cy_a">>,
          <<"s", "u", "b", "u", "r", "b", "a", "n">>,
          <<"cy_a", "cy_ve", "cy_te", "cy_o", "cy_be", "cy_u", "cy_es">>,
          <<"b", "u", "s">>,
          <<"cy_er", "cy_ie", "cy_short_i", "cy_es">>,
          <<"f", "l", "i", "g", "h", "t">>}],
      [category |-> "stocks",
       patterns |->
         {<<"cy_ka", "cy_u", "cy_er", "cy_es">>,
          <<"r", "a", "t", "e">>,
          <<"cy_a", "cy_ka", "cy_tse", "cy_i", "cy_i">>,
          <<"s", "t", "o", "c", "k", "s">>,
          <<"cy_be", "cy_i", "cy_er", "cy_zhe", "cy_a">>,
          <<"e", "x", "c", "h", "a", "n", "g", "e">>,
          <<"cy_tse", "cy_ie", "cy_en", "cy_a", " ", "cy_a", "cy_ka",
            "cy_tse", "cy_i", "cy_i">>,
          <<"s", "t", "o", "c", "k", " ", "p", "r", "i", "c", "e">>,
          <<"cy_ka", "cy_o", "cy_te", "cy_i", "cy_er", "cy_o", "cy_ve",
            "cy_ka", "cy_i">>,
          <<"q", "u", "o", "t", "e", "s">>}],
      [category |-> "sports",
       patterns |->
         {<<"cy_es", "cy_che", "cy_io", "cy_te">>,
          <<"s", "c", "o", "r", "e">>,
          <<"cy_em", "cy_a", "cy_te", "cy_che">>,
          <<"m", "a", "t", "c", "h">>,
          <<"cy_i", "cy_ghe", "cy_er", "cy_a">>,
          <<"g", "a", "m", "e">>,
          <<"cy_che", "cy_ie", "cy_em", "cy_pe", "cy_i", "cy_o", "cy_en",
            "cy_a", "cy_te">>,
          <<"c", "h", "a", "m", "p", "i", "o", "n", "s", "h", "i", "p">>,
          <<"cy_te", "cy_u", "cy_er", "cy_en", "cy_i", "cy_er">>,
          <<"t", "o", "u", "r", "n", "a", "m", "e", "n", "t">>}],
      [category |-> "tech_docs",
       patterns |->
         {<<"cy_de", "cy_o", "cy_ka", "cy_u", "cy_em", "cy_ie", "cy_en",
            "cy_te", "cy_a", "cy_tse", "cy_i", "cy_ya">>,
          <<"d", "o", "c", "u", "m", "e", "n", "t", "a", "t", "i", "o", "n">>,
          <<"a", "p", "i">>,
          <<"d", "o", "c", "s">>,
          <<"r", "e", "f", "e", "r", "e", "n", "c", "e">>,
          <<"s", "p", "e", "c", "i", "f", "i", "c", "a", "t", "i", "o", "n">>}],
      [category |-> "tutorials",
       patterns |->
         {<<"cy_ka", "cy_a", "cy_ka">>,
          <<"h", "o", "w", " ", "t", "o">>,
          <<"cy_i", "cy_en", "cy_es", "cy_te", "cy_er", "cy_u", "cy_ka",
            "cy_tse", "cy_i", "cy_ya">>,
          <<"t", "u", "t", "o", "r", "i", "a", "l">>,
          <<"g", "u", "i", "d", "e">>,
          <<"cy_en", "cy_a", "cy_u", "cy_che", "cy_i", "cy_te",
            "cy_soft_sign", "cy_es", "cy_ya">>,
          <<"l", "e", "a", "r", "n">>,
          <<"cy_pe", "cy_o", "cy_sha", "cy_a", "cy_ghe", "cy_o", "cy_ve",
            "cy_o">>,
          <<"s", "t", "e", "p", " ", "b", "y", " ", "s", "t", "e", "p">>}],
      [category |-> "shopping",
       patterns |->
         {<<"cy_ka", "cy_u", "cy_pe", "cy_i", "cy_te", "cy_soft_sign">>,
          <<"b", "u", "y">>,
          <<"cy_tse", "cy_ie", "cy_en", "cy_a">>,
          <<"p", "r", "i", "c", "e">>,
          <<"cy_es", "cy_te", "cy_o", "cy_i", "cy_em", "cy_o", "cy_es",
            "cy_te", "cy_soft_sign">>,
          <<"c", "o", "s", "t">>,
          <<"cy_em", "cy_a", "cy_ghe", "cy_a", "cy_ze", "cy_i", "cy_en">>,
          <<"s", "h", "o", "p">>,
          <<"cy_ze", "cy_a", "cy_ka", "cy_a", "cy_ze", "cy_a", "cy_te",
            "cy_soft_sign">>,
          <<"o", "r", "d", "e", "r">>}],
      [category |-> "historical",
       patterns |->
         {<<"cy_i", "cy_es", "cy_te", "cy_o", "cy_er", "cy_i", "cy_ya">>,
          <<"h", "i", "s", "t", "o", "r", "i", "c", "a", "l">>,
          <<"cy_ka", "cy_o", "cy_ghe", "cy_de", "cy_a", " ", "cy_be",
            "cy_yeru", "cy_el">>,
          <<"w", "h", "e", "n", " ", "w", "a", "s">>,
          <<"cy_ve", " ", "cy_ka", "cy_a", "cy_ka", "cy_o", "cy_em", " ",
            "cy_ghe", "cy_o", "cy_de", "cy_u">>,
          <<"w", "h", "a", "t", " ", "y", "e", "a", "r">>,
          <<"cy_ka", "cy_te", "cy_o", " ", "cy_be", "cy_yeru", "cy_el">>,
          <<"w", "h", "o", " ", "w", "a", "s">>,
          <<"cy_be", "cy_i", "cy_o", "cy_ghe", "cy_er", "cy_a", "cy_ef",
            "cy_i", "cy_ya">>,
          <<"b", "i", "o", "g", "r", "a", "p", "h", "y">>}]>>

\* The queries of the model: one keyword, keywords of several categories, a
\* keyword inside a longer word, no keyword, in two languages and cases.
QueryWeather == <<"w", "e", "a", "t", "h", "e", "r">>

QueryQuestions ==
    <<"cy_ka", "cy_a", "cy_ka", "cy_i", "cy_ie", "-", "cy_te", "cy_o", " ",
      "cy_o", "cy_be", "cy_shcha", "cy_i", "cy_ie", " ", "cy_ve", "cy_o",
      "cy_pe", "cy_er", "cy_o", "cy_es", "cy_yeru">>

QueryCelebrate == <<"c", "e", "l", "e", "b", "r", "a", "t", "e">>

QueryHello == <<"h", "e", "l", "l", "o">>

QueryCaesar ==
    <<"w", "h", "o", " ", "w", "a", "s", " ", "C", "a", "e", "s", "a", "r">>

QueryBus ==
    <<"b", "u", "s", " ", "s", "c", "h", "e", "d", "u", "l", "e", " ", "p",
      "r", "i", "c", "e">>

QueryNews == <<"N", "e", "w", "s", " ", "t", "o", "d", "a", "y">>

QueryRome ==
    <<"cy_ka", "cy_o", "cy_ghe", "cy_de", "cy_a", " ", "cy_be", "cy_yeru",
      "cy_el", " ", "cy_o", "cy_es", "cy_en", "cy_o", "cy_ve", "cy_a",
      "cy_en", " ", "CY_ER", "cy_i", "cy_em">>

Queries ==
    {QueryWeather, QueryQuestions, QueryCelebrate, QueryHello, QueryCaesar,
     QueryBus, QueryNews, QueryRome}

\* classify, from the i-th category of the table on.
RECURSIVE ClassifyFrom(_, _)
ClassifyFrom(query_lower, i) ==
    IF i > Len(PATTERNS) THEN "general"
    ELSE IF \E pattern \in PATTERNS[i].patterns :
               Contains(query_lower, pattern)
    THEN PATTERNS[i].category
    ELSE ClassifyFrom(query_lower, i + 1)

\* classify for each query of the model, worked out once.
Classified == [query \in Queries |-> ClassifyFrom(LowerStr(query), 1)]

Classify(query) ==
    IF query \in Queries THEN Classified[query]
    ELSE ClassifyFrom(LowerStr(query), 1)

\* The reasons given for an override: none, short ones, one of 19 and one of
\* 20 characters, a long one.
ReasonEmpty == <<>>

ReasonShort ==
    <<"I", " ", "w", "a", "n", "t", " ", "o", "l", "d", " ", "n", "e", "w",
      "s">>

ReasonNineteen ==
    <<"n", "e", "e", "d", " ", "t", "h", "e", " ", "2", "0", "1", "9", " ",
      "g", "u", "i", "d", "e">>

ReasonTwenty ==
    <<"n", "e", "e", "d", " ", "t", "h", "e", " ", "2", "0", "1", "9", " ",
      "m", "a", "n", "u", "a", "l">>

ReasonLong ==
    <<"L", "o", "o", "k", "i", "n", "g", " ", "f", "o", "r", " ", "c", "o",
      "m", "p", "r", "e", "h", "e", "n", "s", "i", "v", "e", " ", "t", "u",
      "t", "o", "r", "i", "a", "l", " ", "f", "r", "o", "m", " ", "2", " ",
      "y", "e", "a", "r", "s", " ", "a", "g", "o">>

Reasons == {ReasonEmpty, ReasonShort, ReasonNineteen, ReasonTwenty, ReasonLong}

\* Days absent, negative, zero, within and above the maxima of the policies.
RequestedDays == {NoDays, <<-1>>, <<0>>, <<1>>, <<2>>, <<7>>, <<8>>, <<400>>}

EnforceRecencyCall ==
    /\ ~decision.called
    /\ decision' = [called |-> TRUE,
                    value |-> EnforceRecency(search_in.category,
                                             search_in.days)]
    /\ UNCHANGED <<searchOthers, search_in, override_ret, classify_ret,
                   upstream, search_cache, search_ret, plan_ret>>

ValidateOverrideCall ==
    /\ ~override_ret.called
    /\ override_ret' = [called |-> TRUE,
                        value |-> ValidateOverride(search_in.category,
                                                   search_in.days,
                                                   search_in.reason)]
    /\ UNCHANGED <<searchOthers, search_in, decision, classify_ret,
                   upstream, search_cache, search_ret, plan_ret>>

ClassifyCall ==
    /\ ~classify_ret.called
    /\ classify_ret' = [called |-> TRUE, value |-> Classify(search_in.query)]
    /\ UNCHANGED <<searchOthers, search_in, decision, override_ret,
                   upstream, search_cache, search_ret, plan_ret>>

\* Any category, days, reason and query.
InitSearchPolicy ==
    /\ InitExec
    /\ SessionStart
    /\ user_messages = EmptyDict
    /\ LimiterStart
    /\ PipelineStart
    /\ MemoryStart
    /\ PolicyStart
    /\ EmbeddingStart
    /\ OtherSvcStart
    /\ search_in \in [query : Queries, category : SearchCategories,
                      days : RequestedDays, reason : Reasons]

NextSearchPolicy ==
    \/ EnforceRecencyCall
    \/ ValidateOverrideCall
    \/ ClassifyCall

SpecSearchPolicy == InitSearchPolicy /\ [][NextSearchPolicy]_vars

\* C23: for a category whose requirement is mandatory, whatever days are
\* requested, the decision of enforce_recency gives a number of days that is
\* at least 1 and at most the max_days of the category.
C23_MandatoryRecency ==
    (decision.called
     /\ GetPolicy(search_in.category).requirement = "mandatory") =>
        /\ decision.value.recency_days # NoDays
        /\ decision.value.recency_days[1] >= 1
        /\ decision.value.recency_days[1] <=
              GetPolicy(search_in.category).max_days[1]

\* C26: validate_override returns true only for a category whose requirement
\* is recommended or optional with a reason of at least 20 characters, and
\* false for every mandatory and every forbidden category, whatever the
\* override and the reason.
C26_OverrideValidated ==
    override_ret.called =>
        LET requirement == GetPolicy(search_in.category).requirement
        IN  /\ override_ret.value =>
                  /\ requirement \in {"recommended", "optional"}
                  /\ Len(search_in.reason) >= 20
            /\ requirement \in {"mandatory", "forbidden"} =>
                  ~override_ret.value

\* The keyword stands in the text as a word or phrase of its own: what
\* comes before it and after it, if anything, is not a letter.
WordBreaks == Whitespace \cup {"-", ",", ".", "?", "!", ":", ";"}

OwnWord(s, kw) ==
    \E i \in 1..(Len(s) - Len(kw) + 1) :
        /\ SubSeq(s, i, i + Len(kw) - 1) = kw
        /\ i = 1 \/ s[i - 1] \in WordBreaks
        /\ i + Len(kw) - 1 = Len(s) \/ s[i + Len(kw)] \in WordBreaks

\* C27: classify returns the first category of the table one of whose
\* keywords occurs in the query, and general when no keyword of any
\* category stands in the query as a word or phrase of its own.
C27_ClassifyByKeyword ==
    classify_ret.called =>
        LET q == LowerStr(search_in.query)
            Hit(i) == \E kw \in PATTERNS[i].patterns : Contains(q, kw)
            rows == 1..Len(PATTERNS)
        IN  /\ classify_ret.value # "general" =>
                  \E i \in rows :
                      /\ PATTERNS[i].category = classify_ret.value
                      /\ Hit(i)
                      /\ \A j \in 1..(i - 1) : ~Hit(j)
            /\ (\E i \in rows : Hit(i)) => classify_ret.value # "general"
            /\ (\A i \in rows : \A kw \in PATTERNS[i].patterns :
                    ~OwnWord(q, kw))
                  => classify_ret.value = "general"

-----------------------------------------------------------------------------
\* The two clients of the search API: EnhancedPerplexityClient
\* (services/search/perplexity_enhanced.py), which applies the recency
\* policy, and PerplexityClient (integrations/perplexity.py), which the
\* planner of the pipeline calls. Whether the rate limiter allows a call,
\* whether a cached result is still fresh and what the API answers are
\* given to each call.

MaxSearches == 2

\* _days_to_filter
DaysToFilter(days) ==
    IF days = NoDays THEN None
    ELSE IF days[1] <= 1 THEN "day"
    ELSE IF days[1] <= 7 THEN "week"
    ELSE IF days[1] <= 30 THEN "month"
    ELSE IF days[1] <= 365 THEN "year"
    ELSE None

\* The payload posted to /chat/completions: the query, whether it has the
\* key search_recency_filter and the value of the key.
UpstreamRequest(client, query, filter_key, recency_filter) ==
    [client |-> client, query |-> query, filter_key |-> filter_key,
     search_recency_filter |-> recency_filter]

\* What a call of the enhanced search posted, if anything.
NothingSent ==
    [posted |-> FALSE, request |-> UpstreamRequest(None, <<>>, FALSE, None)]

Sent(request) == [posted |-> TRUE, request |-> request]

\* The result of a search with the policy attached, or that it raised.
SearchResult(query, category, policy, override_applied, from_cache) ==
    [query |-> query, category |-> category, policy |-> policy,
     override_applied |-> override_applied, from_cache |-> from_cache]

SearchReturn(args, raised, value, sent) ==
    [called |-> TRUE, args |-> args, raised |-> raised, value |-> value,
     sent |-> sent]

\* EnhancedPerplexityClient.search
EnhancedSearch(query, category_given, requested_recency_days, override_reason,
               use_cache, allowed, fresh, outcome) ==
    LET args == [category |-> category_given,
                 requested_recency_days |-> requested_recency_days,
                 override_reason |-> override_reason]
        category == IF category_given = None THEN Classify(query)
                    ELSE category_given
        policy_decision == EnforceRecency(category, requested_recency_days)
        override_applied ==
            /\ override_reason # <<>>
            /\ DaysGiven(requested_recency_days)
            /\ ValidateOverride(category, requested_recency_days,
                                override_reason)
        policy == IF override_applied
                  THEN [policy_decision EXCEPT
                           !.recency_days = requested_recency_days]
                  ELSE policy_decision
        recency_filter == DaysToFilter(policy.recency_days)
        cache_key == <<query, category, recency_filter>>
        request == UpstreamRequest("enhanced", query, recency_filter # None,
                                   recency_filter)
        search_result ==
            SearchResult(query, category, policy, override_applied, FALSE)
        nothing == SearchResult(query, category, policy, override_applied,
                                FALSE)
    IN  /\ IF ~allowed
           THEN /\ search_ret' = SearchReturn(args, TRUE, nothing, NothingSent)
                /\ UNCHANGED <<upstream, search_cache>>
           ELSE IF use_cache /\ cache_key \in DOMAIN search_cache /\ fresh
           THEN /\ search_cache' = [search_cache EXCEPT
                                       ![cache_key].from_cache = TRUE]
                /\ search_ret' = SearchReturn(args, FALSE,
                                              search_cache'[cache_key],
                                              NothingSent)
                /\ UNCHANGED upstream
           ELSE /\ Len(upstream) < MaxSearches
                /\ upstream' = Append(upstream, request)
                /\ IF outcome = "ok"
                   THEN /\ search_ret' = SearchReturn(args, FALSE,
                                                      search_result,
                                                      Sent(request))
                        /\ search_cache' =
                              IF use_cache
                              THEN DictSet(search_cache, cache_key,
                                           search_result)
                              ELSE search_cache
                   ELSE /\ search_ret' = SearchReturn(args, TRUE, nothing,
                                                      Sent(request))
                        /\ UNCHANGED search_cache
        /\ UNCHANGED <<searchOthers, search_in, decision, override_ret,
                       classify_ret, plan_ret>>

\* PerplexityClient._determine_category: the keywords of each test, in the
\* order of the tests.
CategoryKeywords ==
    <<[category |-> "news",
       keywords |->
         {<<"cy_en", "cy_o", "cy_ve", "cy_o", "cy_es", "cy_te", "cy_i">>,
          <<"cy_es", "cy_ie", "cy_ghe", "cy_o", "cy_de", "cy_en", "cy_ya">>,
          <<"cy_ve", "cy_che", "cy_ie", "cy_er", "cy_a">>,
          <<"n", "e", "w", "s">>,
          <<"l", "a", "t", "e", "s", "t">>}],
      [category |-> "hardware",
       keywords |->
         {<<"e", "s", "p", "3", "2">>,
          <<"a", "r", "d", "u", "i", "n", "o">>,
          <<"r", "a", "s", "p", "b", "e", "r", "r", "y", " ", "p", "i">>,
          <<"cy_zhe", "cy_ie", "cy_el", "cy_ie", "cy_ze", "cy_o">>}],
      [category |-> "howto",
       keywords |->
         {<<"cy_ka", "cy_a", "cy_ka", " ", "cy_es", "cy_de", "cy_ie",
            "cy_el", "cy_a", "cy_te", "cy_soft_sign">>,
          <<"h", "o", "w", " ", "t", "o">>,
          <<"cy_i", "cy_en", "cy_es", "cy_te", "cy_er", "cy_u", "cy_ka",
            "cy_tse", "cy_i", "cy_ya">>,
          <<"t", "u", "t", "o", "r", "i", "a", "l">>}],
      [category |-> "transport",
       keywords |->
         {<<"cy_pe", "cy_o", "cy_ie", "cy_ze", "cy_de">>,
          <<"cy_e", "cy_el", "cy_ie", "cy_ka", "cy_te", "cy_er", "cy_i",
            "cy_che", "cy_ka", "cy_a">>,
          <<"cy_er", "cy_a", "cy_es", "cy_pe", "cy_i", "cy_es", "cy_a",
            "cy_en", "cy_i", "cy_ie">>,
          <<"cy_te", "cy_er", "cy_a", "cy_en", "cy_es", "cy_pe", "cy_o",
            "cy_er", "cy_te">>}],
      [category |-> "historical",
       keywords |->
         {<<"cy_i", "cy_es", "cy_te", "cy_o", "cy_er", "cy_i", "cy_ya">>,
          <<"h", "i", "s", "t", "o", "r", "i", "c", "a", "l">>,
          <<"cy_ka", "cy_o", "cy_ghe", "cy_de", "cy_a", " ", "cy_be",
            "cy_yeru", "cy_el">>,
          <<"cy_ve", " ", "cy_ka", "cy_a", "cy_ka", "cy_o", "cy_em", " ",
            "cy_ghe", "cy_o", "cy_de", "cy_u">>}],
      [category |-> "tech",
       keywords |->
         {<<"cy_te", "cy_ie", "cy_ha", "cy_en", "cy_o", "cy_el", "cy_o",
            "cy_ghe", "cy_i", "cy_ya">>,
          <<"cy_pe", "cy_er", "cy_o", "cy_ghe", "cy_er", "cy_a", "cy_em",
            "cy_em", "cy_i", "cy_er", "cy_o", "cy_ve", "cy_a", "cy_en",
            "cy_i", "cy_ie">>,
          <<"a", "i">>,
          <<"m", "l">>,
          <<"t", "e", "c", "h">>}]>>

\* PerplexityClient._determine_category, from the i-th test on.
RECURSIVE DetermineCategoryFrom(_, _)
DetermineCategoryFrom(query_lower, i) ==
    IF i > Len(CategoryKeywords) THEN "general"
    ELSE IF \E kw \in CategoryKeywords[i].keywords :
               Contains(query_lower, kw)
    THEN CategoryKeywords[i].category
    ELSE DetermineCategoryFrom(query_lower, i + 1)

\* _determine_category for each query of the model, worked out once.
Determined ==
    [query \in Queries |-> DetermineCategoryFrom(LowerStr(query), 1)]

DetermineCategory(query) ==
    IF query \in Queries THEN Determined[query]
    ELSE DetermineCategoryFrom(LowerStr(query), 1)

\* RECENCY_POLICY of integrations/perplexity.py
RECENCY_POLICY ==
    "news" :> [days |-> <<7>>, filter |-> "week"]
    @@ "tech" :> [days |-> <<7>>, filter |-> "week"]
    @@ "howto" :> [days |-> <<90>>, filter |-> "month"]
    @@ "hardware" :> [days |-> <<60>>, filter |-> "month"]
    @@ "transport" :> [days |-> <<1>>, filter |-> "day"]
    @@ "historical" :> [days |-> NoDays, filter |-> None]
    @@ "general" :> [days |-> <<7>>, filter |-> "week"]

\* PerplexityClient._get_recency_config
GetRecencyConfig(category, override_days) ==
    LET policy == IF category \in DOMAIN RECENCY_POLICY
                  THEN RECENCY_POLICY[category]
                  ELSE RECENCY_POLICY["general"]
    IN  IF override_days # NoDays
        THEN IF override_days[1] <= 1 THEN "day"
             ELSE IF override_days[1] <= 7 THEN "week"
             ELSE IF override_days[1] <= 30 THEN "month"
             ELSE IF override_days[1] <= 365 THEN "year"
             ELSE None
        ELSE policy.filter

\* Planner._plan_web_search with the PerplexityClient.search it awaits: the
\* command is the query, no days and no category are given.
PlanWebSearch(command, allowed, outcome) ==
    LET category == DetermineCategory(command)
        recency_filter == GetRecencyConfig(category, NoDays)
        request == UpstreamRequest("perplexity", command, TRUE,
                                   recency_filter)
    IN  /\ IF ~allowed
           THEN /\ plan_ret' = [called |-> TRUE, type |-> "error_response",
                                intent |-> "web_search"]
                /\ UNCHANGED upstream
           ELSE /\ Len(upstream) < MaxSearches
                /\ upstream' = Append(upstream, request)
                /\ plan_ret' =
                      [called |-> TRUE,
                       type |-> IF outcome = "ok" THEN "search_response"
                                ELSE "error_response",
                       intent |-> "web_search"]
        /\ UNCHANGED <<searchOthers, search_in, decision, override_ret,
                       classify_ret, search_cache, search_ret>>

\* Searches of a historical query, with the category left to the
\* pre-classifier, given as historical, or given as one that asks for
\* recent results.
NextSearch ==
    \E category_given \in {None, "historical", "weather"},
       requested_recency_days \in {NoDays, <<0>>, <<7>>},
       override_reason \in {ReasonEmpty, ReasonLong} :
       \/ EnhancedSearch(QueryCaesar, category_given,
                         requested_recency_days, override_reason,
                         FALSE, FALSE, FALSE, "ok")
       \/ \E use_cache \in BOOLEAN, fresh \in BOOLEAN,
             outcome \in {"ok", "raises"} :
             EnhancedSearch(QueryCaesar, category_given,
                            requested_recency_days, override_reason,
                            use_cache, TRUE, fresh, outcome)

SpecSearch == Init /\ [][NextSearch]_vars

\* The web searches of the pipeline, for any query of the model.
NextPlanner ==
    \E command \in Queries, allowed \in BOOLEAN,
       outcome \in {"ok", "raises"} :
       PlanWebSearch(command, allowed, outcome)

SpecPlanner == Init /\ [][NextPlanner]_vars

\* C24: a search of category historical, whatever days are requested and
\* whatever reason is given for an override, has a policy decision without
\* recency days, in a fresh result and in one taken from the cache, and
\* what it posts to the search API has no recency filter.
C24_HistoricalNoRecency ==
    (search_ret.called /\ search_ret.value.category = "historical") =>
        /\ ~search_ret.raised =>
              search_ret.value.policy.recency_days = NoDays
        /\ search_ret.sent.posted =>
              /\ ~search_ret.sent.request.filter_key
              /\ search_ret.sent.request.search_recency_filter = None

\* A historical search with 7 days requested and a long reason that posted
\* its request and returned.
C24_Witness ==
    /\ search_ret.called
    /\ ~search_ret.raised
    /\ search_ret.value.category = "historical"
    /\ search_ret.args.requested_recency_days = <<7>>
    /\ search_ret.args.override_reason = ReasonLong
    /\ search_ret.sent.posted
    /\ upstream[Len(upstream)] = search_ret.sent.request

\* The widest window in days that a recency filter allows.
FilterDays == "day" :> 1 @@ "week" :> 7 @@ "month" :> 30 @@ "year" :> 365

\* C25: a request that the planner's web search posts to the search API
\* carries the recency filter that enforce_recency decides for the category
\* of the query, and for a mandatory category a window of at most max_days.
C25_PlannerSearchRecency ==
    \A i \in DOMAIN upstream :
        upstream[i].client = "perplexity" =>
            LET category == Classify(upstream[i].query)
                enforced == EnforceRecency(category, NoDays)
                recency_filter == upstream[i].search_recency_filter
            IN  /\ recency_filter = DaysToFilter(enforced.recency_days)
                /\ enforced.requirement = "mandatory" =>
                      /\ recency_filter # None
                      /\ FilterDays[recency_filter] <=
                            GetPolicy(category).max_days[1]

-----------------------------------------------------------------------------
\* One call of RealtimeVoiceAgent.stream_process (realtime_voice_agent.py):
\* the generator takes the events of the session's queue one at a time and
\* yields responses, while the model sends the events of the response and
\* another task may call cancel_response. A text is the sequence of its
\* characters, the audio delta a base64 string.

MaxStreamEvents == 3

StreamEvent(type, delta, audio, status) ==
    [type |-> type, delta |-> delta, audio |-> audio, status |-> status]

\* What the model sends while the response runs.
ResponseEvents ==
    {StreamEvent("response.created", <<>>, "", None),
     StreamEvent("response.text.delta", <<"a">>, "", None),
     StreamEvent("response.audio_transcript.delta", <<"b">>, "", None),
     StreamEvent("response.function_call_arguments.done", <<>>, "", None),
     StreamEvent("response.done", <<>>, "", "completed"),
     StreamEvent("error", <<>>, "", None)}
    \cup {StreamEvent("response.audio.delta", <<>>, a, None) :
             a \in AudioInputs}

\* What the model can send once the response is cancelled: response.done
\* with the status cancelled, or the event response.cancelled.
CancelReports ==
    {StreamEvent("response.done", <<>>, "", "cancelled"),
     StreamEvent("response.cancelled", <<>>, "", None)}

\* An event as it arrives: the events of a response carry its id.
OfResponse(event, response) ==
    [type |-> event.type, delta |-> event.delta, audio |-> event.audio,
     status |-> event.status, response |-> response]

\* "accumulated_text or '[Audio response]'"
AudioResponseText == <<"[Audio response]">>

AgentResponse(type, content, event, status) ==
    [type |-> type, content |-> content, event |-> event, status |-> status]

\* stream_process, to the first wait for an event: the session is there, the
\* input is sent and the model starts a response.
StreamProcess(session_given, input) ==
    /\ sp_pc = "idle"
    /\ IF ~session_given \/ input = "none"
       THEN /\ sp_pc' = "raised"
            /\ UNCHANGED sp_model
       ELSE /\ sp_pc' = "waiting"
            /\ sp_model' = [state |-> "active", sent |-> 0,
                             response |-> sp_model.response + 1]
    /\ UNCHANGED <<streamOthers, sp_queue, accumulated_text,
                   accumulated_audio, sp_out, sp_cancelled>>

\* The model sends an event of the response; _listen_events puts it on the
\* queue.
ModelSends(event) ==
    /\ sp_model.state = "active"
    /\ sp_model.sent < MaxStreamEvents
    /\ sp_queue' = Append(sp_queue, OfResponse(event, sp_model.response))
    /\ sp_model' = [sp_model EXCEPT
                       !.state = IF event.type \in {"response.done", "error"}
                                 THEN "over" ELSE "active",
                       !.sent = @ + 1]
    /\ UNCHANGED <<streamOthers, sp_pc, accumulated_text, accumulated_audio,
                   sp_out, sp_cancelled>>

\* cancel_response, called while stream_process waits for events: the model
\* is sent response.cancel and gives up the response.
CancelStreamResponse ==
    /\ sp_pc = "waiting"
    /\ sp_model.state = "active"
    /\ sp_model' = [sp_model EXCEPT !.state = "cancelled"]
    /\ sp_cancelled' = TRUE
    /\ UNCHANGED <<streamOthers, sp_pc, sp_queue, accumulated_text,
                   accumulated_audio, sp_out>>

\* The model reports the cancellation with one of its events, or not at all.
ModelReportsCancel(reports) ==
    /\ sp_model.state = "cancelled"
    /\ sp_queue' = sp_queue \o [i \in 1..Len(reports) |->
                                   OfResponse(reports[i], sp_model.response)]
    /\ sp_model' = [sp_model EXCEPT !.state = "over"]
    /\ UNCHANGED <<streamOthers, sp_pc, accumulated_text, accumulated_audio,
                   sp_out, sp_cancelled>>

\* One round of the loop: the event at the head of the queue is taken and
\* handled.
StreamStep ==
    /\ sp_pc = "waiting"
    /\ sp_queue # <<>>
    /\ sp_queue' = Tail(sp_queue)
    /\ LET event == Head(sp_queue)
           event_type == event.type
       IN  IF event_type = "response.audio.delta"
           THEN IF event.audio = ""
                THEN UNCHANGED <<sp_pc, accumulated_text, accumulated_audio,
                                 sp_out>>
                ELSE IF ~B64Decode(event.audio).ok
                THEN /\ sp_pc' = "raised"
                     /\ UNCHANGED <<accumulated_text, accumulated_audio,
                                    sp_out>>
                ELSE /\ accumulated_audio' =
                           Append(accumulated_audio,
                                  B64Decode(event.audio).bytes)
                     /\ sp_out' = Append(sp_out,
                           AgentResponse("audio", <<>>, event_type, None))
                     /\ UNCHANGED <<sp_pc, accumulated_text>>
           ELSE IF event_type = "response.text.delta"
           THEN /\ accumulated_text' = accumulated_text \o event.delta
                /\ sp_out' = Append(sp_out,
                      AgentResponse("text", event.delta, event_type, None))
                /\ UNCHANGED <<sp_pc, accumulated_audio>>
           ELSE IF event_type = "response.audio_transcript.delta"
           THEN /\ sp_out' = Append(sp_out,
                      AgentResponse("text", event.delta, event_type, None))
                /\ UNCHANGED <<sp_pc, accumulated_text, accumulated_audio>>
           ELSE IF event_type = "response.function_call_arguments.done"
           THEN /\ sp_out' = Append(sp_out,
                      AgentResponse("function_call", <<>>, event_type, None))
                /\ UNCHANGED <<sp_pc, accumulated_text, accumulated_audio>>
           ELSE IF event_type = "response.done"
           THEN /\ sp_out' = Append(sp_out,
                      AgentResponse("text",
                                    IF accumulated_text # <<>>
                                    THEN accumulated_text
                                    ELSE AudioResponseText,
                                    event_type, event.status))
                /\ sp_pc' = "ended"
                /\ UNCHANGED <<accumulated_text, accumulated_audio>>
           ELSE IF event_type = "error"
           THEN /\ sp_pc' = "ended"
                /\ UNCHANGED <<accumulated_text, accumulated_audio, sp_out>>
           ELSE UNCHANGED <<sp_pc, accumulated_text, accumulated_audio,
                            sp_out>>
    /\ UNCHANGED <<streamOthers, sp_model, sp_cancelled>>

\* No event comes for 30 seconds: asyncio.TimeoutError, the loop is left.
StreamTimeout ==
    /\ sp_pc = "waiting"
    /\ sp_queue = <<>>
    /\ sp_pc' = "ended"
    /\ UNCHANGED <<streamOthers, sp_queue, accumulated_text,
                   accumulated_audio, sp_out, sp_model, sp_cancelled>>

NextStream ==
    \/ \E session_given \in BOOLEAN, input \in {"audio", "text", "none"} :
          StreamProcess(session_given, input)
    \/ \E event \in ResponseEvents : ModelSends(event)
    \/ CancelStreamResponse
    \/ \E reports \in {<<>>} \cup {<<event>> : event \in CancelReports} :
          ModelReportsCancel(reports)
    \/ StreamStep
    \/ StreamTimeout

SpecStream == Init /\ [][NextStream]_vars

\* C28: when cancel_response was called while stream_process took the events
\* of the response, the stream ends with a final response, the one made for
\* response.done, whose content is the text accumulated from the deltas.
C28_CancelledPartialText ==
    (sp_pc = "ended" /\ sp_cancelled) =>
        /\ sp_out # <<>>
        /\ sp_out[Len(sp_out)].event = "response.done"
        /\ sp_out[Len(sp_out)].content = accumulated_text

-----------------------------------------------------------------------------
\* The audit log and its two writers: Executor._log_action, above, and
\* CommandProcessor.execute_action_plan (app/services/command_processor.py),
\* which calls the adapter for each action and then adds its own row.

\* The plans given to execute_action_plan: one action, with and without
\* the need of a confirmation.
MaxAuditCalls == 3

LegacyPlans ==
    [type : {"action_plan"}, actions : {<<LightOn>>},
     needs_confirmation : BOOLEAN, rule_text : {""}]

\* The plans given to the executor next to them: one action, or a rule
\* without text.
AuditPlans ==
    {p \in Plans : p.actions \in {<<>>, <<CoverOpen>>}
                      /\ p.type \in {"action_plan", "set_rule"}
                      /\ p.rule_text = ""}

\* The loop over the actions from the i-th on: the calls made, the requests
\* posted, all_success and error_message. oks[i] is whether the request of
\* the i-th action succeeds; an action without domain raises before the call.
RECURSIVE RunActions(_, _, _, _)
RunActions(actions, oks, i, acc) ==
    IF i > Len(actions) THEN acc
    ELSE LET action == actions[i]
             service_call == ServiceCall(action.domain, action.service)
             missing == action.domain = <<>> \/ action.service = <<>>
             out == CallService(action.domain, action.service, oks[i])
         IN  RunActions(actions, oks, i + 1,
                 [calls |-> IF missing THEN acc.calls
                            ELSE Append(acc.calls, service_call),
                  posts |-> IF ~missing /\ out.posted
                            THEN Append(acc.posts, service_call)
                            ELSE acc.posts,
                  all_success |-> acc.all_success /\ ~missing /\ out.ok,
                  error_message |->
                      IF missing THEN <<MissingError>>
                      ELSE IF ~out.ok THEN <<out.raised>>
                      ELSE acc.error_message])

\* The row execute_action_plan adds.
LegacyLogEntry(p, c, all_success, error_message) ==
    [actions |-> p.actions,
     confirmed |-> c,
     executed |-> TRUE,
     success |-> all_success,
     error |-> IF error_message # <<>>
               THEN [null |-> FALSE, text |-> error_message]
               ELSE [null |-> TRUE, text |-> <<>>]]

\* execute_action_plan; dbOk is whether the insert and commit succeed (a
\* failure is raised to the caller). The calls of the two writers together
\* are at most MaxAuditCalls.
ExecuteActionPlan(p, c, oks, dbOk) ==
    /\ runs + cp_call.calls < MaxAuditCalls
    /\ IF p.needs_confirmation /\ ~c
       THEN /\ cp_call' = [calls |-> cp_call.calls + 1, plan |-> p,
                           confirmed |-> c, raised |-> FALSE,
                           success |-> FALSE, needs_confirmation |-> TRUE]
            /\ UNCHANGED <<call_service_calls, ha_posts, action_log>>
       ELSE LET run == RunActions(p.actions, oks, 1,
                           [calls |-> <<>>, posts |-> <<>>,
                            all_success |-> TRUE, error_message |-> <<>>])
            IN  /\ call_service_calls' = call_service_calls \o run.calls
                /\ ha_posts' = ha_posts \o run.posts
                /\ action_log' =
                      IF dbOk
                      THEN Append(action_log,
                                  LegacyLogEntry(p, c, run.all_success,
                                                 run.error_message))
                      ELSE action_log
                /\ cp_call' = [calls |-> cp_call.calls + 1, plan |-> p,
                               confirmed |-> c, raised |-> ~dbOk,
                               success |-> run.all_success,
                               needs_confirmation |-> FALSE]
    /\ UNCHANGED <<cmdOthers, allowed_services_list,
                   confirmation_services_list, pcExec, plan, confirmed,
                   dry_run, idx, exec_result, result, ret, runs, finished,
                   user_rules>>

NextAudit ==
    \/ /\ runs + cp_call.calls < MaxAuditCalls
       /\ \E p \in AuditPlans, c \in BOOLEAN : Execute(p, c, FALSE)
    \/ \E httpOk \in BOOLEAN : ExecuteHaAction(httpOk)
    \/ \E memOk \in BOOLEAN : ExecuteSetRule(memOk)
    \/ \E dbOk \in BOOLEAN : LogAction(dbOk)
    \/ \E p \in LegacyPlans, c \in BOOLEAN, ok \in BOOLEAN,
          dbOk \in BOOLEAN :
          ExecuteActionPlan(p, c, <<ok, ok>>, dbOk)

SpecAudit == Init /\ [][NextAudit]_vars

\* The row added to the audit log by this step, and the plan it was added
\* for: the plan of the call of execute_action_plan when the step is one, or
\* the plan of the run of the executor that is logging.
RowAdded == Len(action_log') = Len(action_log) + 1

PlanLogged == IF cp_call' # cp_call THEN cp_call'.plan ELSE plan

\* C29: a row added to the audit log with executed true has success true or
\* false, and no row with confirmed false and executed true is added for a
\* plan that needs confirmation; the rows already there stay as they are.
C29_AuditRows ==
    [][/\ SubSeq(action_log', 1, Len(action_log)) = action_log
       /\ RowAdded =>
             LET row == action_log'[Len(action_log')]
             IN  row.executed =>
                     /\ row.success \in BOOLEAN
                     /\ ~(PlanLogged.needs_confirmation /\ ~row.confirmed)]_vars

\* Both writers have added a row, one for a confirmed plan that needs
\* confirmation and one with success false, and an unconfirmed call for a
\* plan that needs confirmation has returned.
C29_Witness ==
    /\ Len(action_log) >= 2
    /\ \E i \in DOMAIN action_log :
          action_log[i].confirmed /\ action_log[i].executed
    /\ \E i \in DOMAIN action_log :
          action_log[i].executed /\ ~action_log[i].success
    /\ cp_call.needs_confirmation
    /\ finished >= 1

-----------------------------------------------------------------------------
(* Two runs of PipelineOrchestrator.process for one user at the same time:
   coroutines of one event loop, each giving way to the other at every
   await.  The stages between the context and the saving touch neither the
   dialog history nor each other and stand as one step. *)

\* "limit=10" of _get_memory_context
HistoryLimit == 10

\* The command of a run and the text of its response.
CommandOf(r) == IF r = 1 THEN "command1" ELSE "command2"
ResponseOf(r) == IF r = 1 THEN "response1" ELSE "response2"

\* memory_service.get_short_term_history: the user's rows,
\* "order_by(desc(timestamp)).limit(limit)", as messages, oldest first.
\* Rows of equal timestamp come in any order.
GetShortTermHistory(rows, user, limit) ==
    LET own == UserRows(rows, user)
        n == Min(limit, Cardinality(own))
        dialogs ==
            {seq \in Arrangements(own, n) :
                /\ \A i, j \in 1..n :
                      i < j => rows[seq[i]].timestamp >= rows[seq[j]].timestamp
                /\ \A i \in 1..n, k \in own :
                      (\A j \in 1..n : seq[j] # k)
                          => rows[k].timestamp <= rows[seq[i]].timestamp}
    IN  {Reverse([i \in 1..n |-> Turn(rows[seq[i]].role,
                                       rows[seq[i]].content)]) :
            seq \in dialogs}

\* What a step of a run leaves alone.
ConcFrame ==
    UNCHANGED <<concOthers, pcPipe, pipe, stages_run, pipe_ret, pipe_calls,
                adds, add_calls, store_ops>>

\* process is called and the intent is analyzed.
ConcProcess(r) ==
    /\ conc[r].pc = "idle"
    /\ conc' = [conc EXCEPT ![r].pc = "resolve"]
    /\ UNCHANGED dialog_history
    /\ ConcFrame

\* context_resolver.resolve, _get_memory_context: the recent history is
\* read, or the reading fails and the history is empty.
ConcResolve(r, ok) ==
    /\ conc[r].pc = "resolve"
    /\ \E recent_history \in
             IF ok THEN GetShortTermHistory(dialog_history, "u1", HistoryLimit)
             ELSE {<<>>} :
          conc' = [conc EXCEPT ![r].pc = "compose",
                               ![r].read = recent_history]
    /\ UNCHANGED dialog_history
    /\ ConcFrame

\* The plan is made and executed and the response composed, with a text or
\* without.
ConcCompose(r, text) ==
    /\ conc[r].pc = "compose"
    /\ conc' = [conc EXCEPT ![r].pc = "save_user", ![r].text = text]
    /\ UNCHANGED dialog_history
    /\ ConcFrame

\* _save_to_memory, the user message
ConcSaveUser(r) ==
    /\ conc[r].pc = "save_user"
    /\ dialog_history' =
          AddToShortTerm(dialog_history, "u1", "user", CommandOf(r))
    /\ conc' = [conc EXCEPT ![r].pc = IF conc[r].text # ""
                                      THEN "save_assistant" ELSE "done"]
    /\ ConcFrame

\* _save_to_memory, the assistant response
ConcSaveAssistant(r) ==
    /\ conc[r].pc = "save_assistant"
    /\ dialog_history' =
          AddToShortTerm(dialog_history, "u1", "assistant", conc[r].text)
    /\ conc' = [conc EXCEPT ![r].pc = "done"]
    /\ ConcFrame

NextConcurrent ==
    \/ \E r \in ConcRuns : ConcProcess(r)
    \/ \E r \in ConcRuns, ok \in BOOLEAN : ConcResolve(r, ok)
    \/ \E r \in ConcRuns : ConcCompose(r, "")
    \/ \E r \in ConcRuns : ConcCompose(r, ResponseOf(r))
    \/ \E r \in ConcRuns : ConcSaveUser(r)
    \/ \E r \in ConcRuns : ConcSaveAssistant(r)
    \/ Tick(1)

SpecConcurrent == Init /\ [][NextConcurrent]_vars

\* A turn with this content is among these turns.
HasContent(turns, content) == \E i \in DOMAIN turns : turns[i].content = content

\* The run has saved both its turns.
SavedBoth(r) == conc[r].pc = "done" /\ conc[r].text # ""

\* The two turns of each run that saved both stand next to each other in
\* the dialog history.
TurnsAdjacent ==
    \A r \in ConcRuns :
       SavedBoth(r) =>
           \E i \in 1..(Len(dialog_history) - 1) :
              /\ dialog_history[i].content = CommandOf(r)
              /\ dialog_history[i + 1].content = ResponseOf(r)

\* The history a run read has both turns of the other run or neither, for
\* another run that saves two turns.
ReadWholeTurns ==
    \A r \in ConcRuns, q \in ConcRuns :
       (q # r /\ conc[q].pc \in {"save_assistant", "done"} /\ conc[q].text # "") =>
           (HasContent(conc[r].read, CommandOf(q))
              <=> HasContent(conc[r].read, ResponseOf(q)))

\* C31: of two runs of process for one user at the same time, each one's
\* user turn and assistant turn end up next to each other in the dialog
\* history, and the history a run reads has both turns of the other run or
\* neither.
C31_TurnAtomic == TurnsAdjacent /\ ReadWholeTurns

-----------------------------------------------------------------------------
(* Calls of ShortTermMemory.add for one user at the same time: coroutines of
   one event loop, each giving way to the others where it awaits the
   database. *)

\* Bound of the model: calls of add.
MaxAdds == 4

\* A row with the id the database gave it.
RowWithId(row, id) == ("id" :> id) @@ row

\* "DialogHistory.id.in_(ids_to_delete)"
DeleteIds(rows, ids_to_delete) ==
    SelectSeq(rows, LAMBDA row : row.id \notin ids_to_delete)

\* The ids of the user's rows.
UserIds(rows, user) == {rows[i].id : i \in UserRows(rows, user)}

\* What a step of a call of add leaves alone.
AddFrame ==
    UNCHANGED <<concOthers, pcPipe, pipe, stages_run, pipe_ret, pipe_calls,
                conc, store_ops>>

\* add: the entry is added and committed.
AddInsert(a) ==
    /\ adds[a].pc = "idle"
    /\ add_calls < MaxAdds
    /\ add_calls' = add_calls + 1
    /\ dialog_history' =
          Append(dialog_history,
                 RowWithId(Row("u1", "user", Command, "conversation", "low",
                               Never),
                           add_calls + 1))
    /\ adds' = [adds EXCEPT ![a].pc = "count"]
    /\ AddFrame

\* _cleanup_old_entries: the rows of the user are counted; the call of add
\* returns when they are max_size or fewer.
AddCount(a) ==
    /\ adds[a].pc = "count"
    /\ adds' = [adds EXCEPT ![a].pc =
                   IF Cardinality(UserRows(dialog_history, "u1"))
                         <= short_term_memory_size
                   THEN "idle" ELSE "select"]
    /\ UNCHANGED <<dialog_history, add_calls>>
    /\ AddFrame

\* _cleanup_old_entries: the ids after the max_size most recent rows are
\* selected; with none the call of add returns.
AddSelect(a) ==
    /\ adds[a].pc = "select"
    /\ \E ids \in IdsToDelete(dialog_history, "u1", short_term_memory_size) :
          LET ids_to_delete == {dialog_history[i].id : i \in ids}
          IN  adds' = [adds EXCEPT ![a].pc = IF ids_to_delete # {}
                                             THEN "delete" ELSE "idle",
                                   ![a].ids_to_delete = ids_to_delete]
    /\ UNCHANGED <<dialog_history, add_calls>>
    /\ AddFrame

\* _cleanup_old_entries: the rows selected are deleted and the deletion is
\* committed; the call of add returns.
AddDelete(a) ==
    /\ adds[a].pc = "delete"
    /\ dialog_history' = DeleteIds(dialog_history, adds[a].ids_to_delete)
    /\ adds' = [adds EXCEPT ![a].pc = "idle"]
    /\ UNCHANGED add_calls
    /\ AddFrame

NextAdds ==
    \/ \E a \in ConcRuns : AddInsert(a)
    \/ \E a \in ConcRuns : AddCount(a)
    \/ \E a \in ConcRuns : AddSelect(a)
    \/ \E a \in ConcRuns : AddDelete(a)
    \/ Tick(1)

SpecAdds == Init /\ [][NextAdds]_vars

\* A call of add returns in this step.
AddReturns == \E a \in ConcRuns : adds[a].pc # "idle" /\ adds'[a].pc = "idle"

\* When a call of add returns the user has max_size rows at most.
BoundedAtReturn ==
    [][AddReturns =>
          Cardinality(UserRows(dialog_history', "u1"))
              <= short_term_memory_size]_vars

\* No row is deleted while an older row of the user is kept.
OldestDeleted ==
    [][\A i \in DOMAIN dialog_history :
          dialog_history[i].id \notin UserIds(dialog_history', "u1") =>
              \A k \in DOMAIN dialog_history' :
                 dialog_history'[k].timestamp >= dialog_history[i].timestamp
      ]_vars

\* C32: under every interleaving of the calls of add for one user, when a
\* call returns the user has max_size rows at most, and no row has been
\* deleted while an older row of the user was kept.
C32_AddsSerialized ==
    [][/\ AddReturns =>
             Cardinality(UserRows(dialog_history', "u1"))
                 <= short_term_memory_size
       /\ \A i \in DOMAIN dialog_history :
             dialog_history[i].id \notin UserIds(dialog_history', "u1") =>
                 \A k \in DOMAIN dialog_history' :
                    dialog_history'[k].timestamp
                        >= dialog_history[i].timestamp
      ]_vars

-----------------------------------------------------------------------------
(* Claims about the resources of a connection, checked under SpecProtocol *)

\* The model channels that are open.
OpenChannels == {c \in DOMAIN channels : channels[c].open}

\* The forwarder tasks that are running.
RunningForwarders ==
    {t \in DOMAIN tasks : tasks[t].state \in {"waiting", "sending"}}

OneForwarder == Cardinality(RunningForwarders) <= 1

\* The same for the model channels alone.
OneOpenChannel == Cardinality(OpenChannels) <= 1

-----------------------------------------------------------------------------
(* The session when its model channel is lost *)

\* _listen_events, "except Exception": reading or decoding a message fails
\* on an open channel; the error is logged and the listener returns.
ListenerFails(c) ==
    /\ c \in DOMAIN channels
    /\ channels[c].open
    /\ channels[c].listener = "running"
    /\ wsPc = "loop"
    /\ channels' = [channels EXCEPT ![c].listener = "done"]
    /\ UNCHANGED <<execVars, libVars, wsPc, client_open, session_id, user_id,
                   event_listener_task, websockets, event_handlers, queues,
                   tasks, client_out, now, user_messages, msgs, events, ticks,
                   pings>>

NextSessionDown ==
    \/ NextSession
    \/ \E c \in DOMAIN channels : ListenerFails(c)

\* The event loop runs every task that is ready, the listener when its
\* channel is closed, the forwarder on its timeout and the finally block of
\* the handler included.  Nothing makes the client send a message.
SpecSessionDown ==
    /\ Init /\ [][NextSessionDown]_vars
    /\ WF_vars(\E c \in DOMAIN channels,
                  type \in ResponseStarts \cup {"response.done"} :
                    ListenEvent(c, type))
    /\ WF_vars(\E c \in DOMAIN channels : ListenerEnd(c))
    /\ WF_vars(\E t \in DOMAIN tasks : ForwarderGet(t))
    /\ WF_vars(\E t \in DOMAIN tasks : ForwarderSend(t))
    /\ WF_vars(\E t \in DOMAIN tasks : ForwarderTimeout(t))
    /\ WF_vars(FinallyCancel)
    /\ WF_vars(FinallyDisconnect)
    /\ WF_vars(FinallyShutdown)

\* The client is connected and configured, and the model channel of its
\* session is closed or the listener of the channel has ended.
ModelChannelLost ==
    /\ wsPc = "loop"
    /\ client_open
    /\ session_id # NoSession
    /\ WsOf(session_id) # 0
    /\ \/ ~channels[WsOf(session_id)].open
       \/ channels[WsOf(session_id)].listener = "done"

\* An error frame was sent to the client and the teardown is over.
ErrorSentAndTornDown ==
    /\ wsPc = "closed"
    /\ \E i \in DOMAIN client_out : client_out[i].type = "error"

-----------------------------------------------------------------------------
(* Claims about the event queue of a session, checked under SpecSession *)

\* C35: the events buffered between the listener and the forwarder stay
\* within a fixed capacity, the listener waiting when the buffer is full:
\* however many events the model sends (MaxEvents of them here) while the
\* forwarder takes none, the queue holds fewer.
C35_QueueBounded ==
    \A q \in DOMAIN queues : Len(queues[q]) < MaxEvents

-----------------------------------------------------------------------------
(* The two stores over time: remember, later appends to the recent store,
   and MemoryManager.cleanup, which runs cleanup_expired on both stores. *)

\* Bound of the model: appends and cleanups after the calls of remember.
MaxStoreOps == 3

\* What an append or a cleanup leaves alone.
StoreFrame ==
    UNCHANGED <<execVars, sessVars, limVars, embVars, searchVars, streamVars,
                cmdVars, pcPipe, pipe, stages_run, pipe_ret, pipe_calls,
                mem_ret, mem_calls, mem_args, recalled, policy_in, policy_ret,
                conc, adds, add_calls>>

\* ShortTermMemory.add for a later message of the conversation, with the
\* expiration remember gives its importance.
LaterAdd(user, importance) ==
    /\ store_ops < MaxStoreOps
    /\ store_ops' = store_ops + 1
    /\ dialog_history' \in
          ShortTermAdded(dialog_history,
                         Row(user, "user", TextHi, "conversation",
                             importance, GetExpirationDate(importance)))
    /\ UNCHANGED long_term
    /\ StoreFrame

\* ShortTermMemory.cleanup_expired: the rows left, those with an expires_at
\* that is not NULL and not after the current time deleted, of the user if
\* one is given.
ShortTermCleaned(rows, user) ==
    SelectSeq(rows,
              LAMBDA row : ~(/\ row.expires_at # Never
                             /\ row.expires_at <= now
                             /\ (user # None => row.user_id = user)))

\* LongTermMemory.cleanup_expired: the entries left, those with an
\* "expires_at" in their metadata that the current time has reached deleted,
\* of the user if one is given.  The date is read back from the ISO text
\* remember wrote, the same moment.
LongTermCleaned(entries, user) ==
    SelectSeq(entries,
              LAMBDA entry : ~(/\ entry.expires_at # Never
                               /\ now >= entry.expires_at
                               /\ (user # None => entry.user_id = user)))

\* MemoryManager.cleanup
Cleanup(user) ==
    /\ store_ops < MaxStoreOps
    /\ store_ops' = store_ops + 1
    /\ dialog_history' = ShortTermCleaned(dialog_history, user)
    /\ long_term' = LongTermCleaned(long_term, user)
    /\ StoreFrame

\* A rule and a long conversation are remembered, messages are appended
\* after them, the stores are cleaned up, within seconds or a day later.
NextStores ==
    \/ \E content \in {TextRule, TextLong} :
          Remember("u1", content, "user", NoMetadata, None, "ok")
    \/ \E importance \in {"low", "critical"} : LaterAdd("u1", importance)
    \/ \E user \in {None, "u1"} : Cleanup(user)
    \/ Tick(1)
    \/ Tick(SecondsPerDay)

SpecStores == Init /\ [][NextStores]_vars

\* The entries of importance critical among these.
CriticalCount(entries) ==
    Cardinality({i \in DOMAIN entries : entries[i].importance = "critical"})

\* No step removes an entry of importance critical from the semantic store.
CriticalKeptLongTerm ==
    [][CriticalCount(long_term') >= CriticalCount(long_term)]_vars

\* No cleanup removes an entry of importance critical from the recent store.
CriticalKeptByCleanup ==
    [][(/\ store_ops' # store_ops
        /\ \E user \in {None, "u1"} :
              dialog_history' = ShortTermCleaned(dialog_history, user)) =>
          CriticalCount(dialog_history') >= CriticalCount(dialog_history)
      ]_vars

\* C36: an entry saved with importance critical is never removed from a
\* store, neither by the trimming of later appends nor by cleanup_expired:
\* no step takes an entry of importance critical out of the recent store or
\* out of the semantic store.
C36_CriticalNeverRemoved ==
    [][/\ CriticalCount(dialog_history') >= CriticalCount(dialog_history)
       /\ CriticalCount(long_term') >= CriticalCount(long_term)]_vars

-----------------------------------------------------------------------------
(* Claims about the loop over the actions of a plan, checked under SpecExec *)

\* The elements of a sequence at the positions the mask gives this value.
Picked(seq, mask, value) ==
    LET F[i \in 0..Len(mask)] ==
            IF i = 0 THEN <<>>
            ELSE IF mask[i] = value THEN Append(F[i - 1], seq[i])
                 ELSE F[i - 1]
    IN  F[Len(mask)]

\* The first n actions of the plan were each recorded once, as executed or
\* as failed, in the order of the plan.
Attempted(er, actions, n) ==
    \E mask \in [1..n -> BOOLEAN] :
       /\ er.executed_actions = Picked(actions, mask, TRUE)
       /\ er.failed_actions = Picked(actions, mask, FALSE)

\* The loop of _execute_ha_actions ends in this step.
LoopEnds == pcExec = "actions" /\ pcExec' = "log"

\* C37: in a run of an action plan every action is attempted in the order
\* of the plan, also after earlier actions failed or raised: each iteration
\* records the next action of the plan, and the result of the run has
\* success true exactly when no action failed, and executed and failed that
\* add up to the number of actions.
C37_EveryActionAttempted ==
    [][/\ (pcExec = "actions" /\ pcExec' = "actions") =>
             /\ idx' = idx + 1
             /\ Attempted(exec_result', plan.actions, idx)
       /\ LoopEnds =>
             /\ idx = Len(plan.actions)
             /\ Attempted(exec_result', plan.actions, Len(plan.actions))
             /\ result'.executed + result'.failed = Len(plan.actions)
             /\ result'.executed = Len(exec_result'.executed_actions)
             /\ result'.success <=> (result'.failed = 0)
      ]_vars

\* A plan of two actions has run to its end: the call of the first raised
\* in the adapter and the second was executed after it.
C37_Witness ==
    /\ pcExec = "log"
    /\ Len(plan.actions) = 2
    /\ exec_result.failed_actions = <<plan.actions[1]>>
    /\ exec_result.executed_actions = <<plan.actions[2]>>
    /\ exec_result.errors # <<MissingError>>
    /\ result.success = FALSE
    /\ call_service_calls # <<>>
    /\ call_service_calls[Len(call_service_calls)] =
          ServiceCall(plan.actions[2].domain, plan.actions[2].service)

-----------------------------------------------------------------------------
(* Claims about the dequeue timeout of the forwarder, under SpecSession *)

\* The dequeue of forwarder task t times out in this step: a ping is
\* counted, or the task goes from waiting to done.
TimesOut(t) ==
    /\ tasks[t].state = "waiting"
    /\ queues[tasks[t].queue] = <<>>
    /\ pings' # pings \/ tasks'[t].state = "done"

\* The timeout sent a ping and left the task waiting and the handler where
\* it was.
PingedAndWaiting(t) ==
    /\ client_out' = Append(client_out, Frame("ping", <<>>))
    /\ tasks'[t].state = "waiting"
    /\ queues' = queues
    /\ wsPc' = wsPc
    /\ channels' = channels

-----------------------------------------------------------------------------
(* The two ways a confirmation reaches the home-automation adapter:
   PipelineOrchestrator.process_confirmation, and the route /v1/confirm
   with CommandProcessor.execute_action_plan *)

\* The response of a declined confirmation.
Declined ==
    [raised |-> FALSE, type |-> "text_response", text |-> "cancelled",
     duration_ms |-> 0, steps_completed |-> 0]

\* process_confirmation: a declined plan is answered at once; a confirmed
\* one goes to the executor with confirmed=True.
ProcessConfirmation(p, c) ==
    IF ~c
    THEN /\ pcExec = "idle"
         /\ runs + cp_call.calls < MaxAuditCalls
         /\ pipe_ret' = Declined
         /\ UNCHANGED <<execVars, sessVars, limVars, memVars, svcVars, pcPipe,
                        pipe, stages_run, pipe_calls, dialog_history>>
    ELSE /\ runs + cp_call.calls < MaxAuditCalls
         /\ Execute(p, TRUE, FALSE)

\* Confirmations, given and declined, on both paths, for plans that need
\* confirmation and plans that do not.
NextConfirm ==
    \/ \E p \in AuditPlans, c \in BOOLEAN : ProcessConfirmation(p, c)
    \/ \E httpOk \in BOOLEAN : ExecuteHaAction(httpOk)
    \/ \E memOk \in BOOLEAN : ExecuteSetRule(memOk)
    \/ \E dbOk \in BOOLEAN : LogAction(dbOk)
    \/ \E p \in LegacyPlans, c \in BOOLEAN, ok \in BOOLEAN,
          dbOk \in BOOLEAN :
          ExecuteActionPlan(p, c, <<ok, ok>>, dbOk)

SpecConfirm == Init /\ [][NextConfirm]_vars

\* The adapter is called in this step.
AdapterCalled == call_service_calls' # call_service_calls

\* A call of execute_action_plan is made in this step.
LegacyCall == cp_call' # cp_call

\* On the pipeline path the adapter is called only in a run that
\* process_confirmation started with confirmed true.
PipelinePathConfirmed ==
    [][/\ (AdapterCalled /\ ~LegacyCall) => confirmed
       /\ pipe_ret' # pipe_ret => UNCHANGED execVars]_vars

\* C39: a confirmation request with confirmed false never causes a call of
\* the home-automation adapter, through process_confirmation and through
\* execute_action_plan alike, whether or not the plan needs confirmation.
C39_DeclinedNeverCalls ==
    [][/\ (AdapterCalled /\ ~LegacyCall) => confirmed
       /\ pipe_ret' # pipe_ret => UNCHANGED execVars
       /\ (LegacyCall /\ ~cp_call'.confirmed) => ~AdapterCalled]_vars

-----------------------------------------------------------------------------
(* Calls of stream_process one after the other on one session: the queue
   of the session outlives a call, and so does what the model still sends
   of a response whose call has ended *)

MaxStreamCalls == 2

\* What the model sends in these runs.
LaterEvents ==
    {event \in ResponseEvents :
        event.type \in {"response.text.delta", "response.done", "error"}}

\* stream_process called after an earlier call ended, the earlier response
\* being over at the model: the session is there, the input is sent, the
\* model starts the next response, and the loop takes from the queue as the
\* earlier call left it.
StreamProcessAgain ==
    /\ sp_pc \in {"ended", "raised"}
    /\ sp_model.state = "over"
    /\ sp_model.response < MaxStreamCalls
    /\ sp_pc' = "waiting"
    /\ sp_model' = [state |-> "active", sent |-> 0,
                    response |-> sp_model.response + 1]
    /\ accumulated_text' = <<>>
    /\ accumulated_audio' = <<>>
    /\ sp_out' = <<>>
    /\ sp_cancelled' = FALSE
    /\ UNCHANGED <<streamOthers, sp_queue>>

NextStreams ==
    \/ \E input \in {"audio", "text"} : StreamProcess(TRUE, input)
    \/ \E event \in LaterEvents : ModelSends(event)
    \/ CancelStreamResponse
    \/ \E reports \in {<<>>} \cup {<<event>> : event \in CancelReports} :
          ModelReportsCancel(reports)
    \/ StreamStep
    \/ StreamTimeout
    \/ StreamProcessAgain

SpecStreams == Init /\ [][NextStreams]_vars

\* The loop takes the event at the head of the queue in this step.
TakesEvent == sp_pc = "waiting" /\ Len(sp_queue') < Len(sp_queue)

\* The event at the head of the queue is of the response this call started.
OwnEvent == Head(sp_queue).response = sp_model.response

\* What a call yields is made from events of its own response.
YieldsOwnEvents == [][(TakesEvent /\ sp_out' # sp_out) => OwnEvent]_vars

\* C40: a call of stream_process yields only events of the response it
\* started: an event left on the queue of the session by an earlier call is
\* not yielded by a later call and does not end the later stream.
C40_OnlyOwnResponse ==
    [][(TakesEvent /\ (sp_out' # sp_out \/ sp_pc' = "ended")) => OwnEvent]_vars

====
